---- MODULE Spec2Model ----
(***************************************************************************)
(* Star-reduction pipeline: star detection and mask rasterisation          *)
(* (StarDetector.detect), mask smoothing and selective compositing         *)
(* (SelectiveErosion.apply, both interpolation laws).                      *)
(*                                                                         *)
(* Arrays are functions over <<row, col>> pairs, indexed as numpy does     *)
(* (image[y, x]).  Every pixel holds a tuple of channel values: one value  *)
(* for a 2-D grayscale array, three for a colour array.                    *)
(* Real numbers are kept exactly as integer numerators over a fixed power  *)
(* of two: the 3x3 Gaussian kernel used by the code has the dyadic weights *)
(* 1/4, 1/2, 1/4, so every float64 intermediate of the compositor is an    *)
(* exact multiple of 1/16 (or 1/32 with the 0.5 weight).                   *)
(***************************************************************************)
EXTENDS Integers, Sequences, FiniteSets, TLC

(***************************************************************************)
(* Bounds of the model                                                     *)
(***************************************************************************)
MaxH == 2      \* compositor inputs have 1..MaxH rows
MaxW == 3      \* compositor inputs have 1..MaxW columns
DetH == 6      \* rows of the detector's input image
DetW == 7      \* columns of the detector's input image
SubPix == 2    \* centroid coordinates are multiples of 1/SubPix pixel
MaxStars == 2  \* the finder reports at most MaxStars sources

\* <<ndim, original levels, transformed levels>> of the two-level test
\* images: the transformed image darker than, mixed with, brighter than and
\* equal to the original
TestInputs == {<<2, <<3, 255>>, <<0, 3>> >>, <<3, <<0, 3>>, <<3, 0>> >>,
               <<2, <<0, 255>>, <<255, 255>> >>, <<3, <<3, 0>>, <<3, 0>> >>}
\* blur_sigma values, in tenths of a pixel (5.0 is Config.MASK_BLUR_SIGMA)
BlurSigmas == {10, 50}

VARIABLES
    original,     \* SelectiveErosion.apply argument: original image (uint8)
    eroded,       \* SelectiveErosion.apply argument: transformed image (uint8)
    mask,         \* SelectiveErosion.apply argument: binary star mask (uint8)
    blur_sigma,   \* SelectiveErosion.blur_sigma, tenths of a pixel
    law,          \* which SelectiveErosion class ran: "none", "full", "half"
    result,       \* returned result_uint8
    mask_smooth,  \* returned mask_smooth, in units of 1/MaskScale
    pc,           \* "ready" before apply returns, "done" after
    image,        \* StarDetector.detect argument: grayscale image (its shape)
    fwhm,         \* StarDetector.fwhm, tenths of a pixel
    radius_factor,\* StarDetector.radius_factor, tenths
    sources,      \* what the point-source finder returns for the image:
                  \* None or a table of centroids, in 1/SubPix pixels
    radius,       \* detect's local: the disk radius passed to cv.circle
    circles,      \* number of cv.circle calls detect made
    star_mask,    \* returned mask
    num_stars,    \* returned count
    dpc,          \* "ready" before detect returns, "done" after
    raised,       \* the exception the last call raised, or None
    m_image,      \* Erosion.apply argument: image (uint8)
    kernel_size,  \* Erosion.kernel_size (and Dilatation.kernel_size)
    iterations,   \* Erosion.iterations (and Dilatation.iterations)
    eroded_image, \* what Erosion.apply returned
    dilated_image,\* what Dilatation.apply returned for eroded_image
    mpc,          \* "ready", then "eroded", then "dilated"
    img1,         \* save_difference argument: first image (uint8)
    img2,         \* save_difference argument: second image (uint8)
    diff_norm,    \* the array save_difference writes to difference.png
    fpc,          \* "ready" before save_difference returns, "done" after
    data,         \* ImageModel.data: the array read from the FITS file
    n_image,      \* ImageModel.image = _prepare_for_opencv(data)
    nan_cast,     \* whether a NaN has been cast to uint8
    npc,          \* "ready" before load_fits returns, "loaded" after
    threshold,    \* StarDetector.threshold, tenths of a sigma
    made,         \* the classes whose constructor has returned an object
    method,       \* the PipelineController method that runs
    config,       \* PipelineController.config: the Config values in use
    finder,       \* what DAOStarFinder reports for the loaded image
    frame,        \* the local variables of the running method
    ppc,          \* the stage the running method has completed
    callbacks,    \* the callbacks the controller was constructed with
    calls,        \* the callback calls made so far, in order
    p_num_stars,  \* the controller's _num_stars
    heap,         \* the ndarray objects that exist, by identity 1..Len(heap)
    args,         \* the identities of the arrays passed to the call
    passed,       \* the content of heap when the call was made
    rets,         \* the identities of the arrays the call returned
    hpc,          \* "ready" before the call returns, "returned" after
    config_class, \* the attributes of the class Config
    config_obj,   \* the attributes of the Config instance in use, or None
    fits_path,    \* the file ask_fits_file returned (or the command line named)
    entered,      \* what the user typed at the wizard's prompts so far
    loaded_file,  \* the file the pipeline run loaded
    used,         \* the parameter values the pipeline run used
    tpc,          \* where the terminal program is
    state_file,   \* the state file: whether it exists and the text in it
    last_call,    \* the last StateManager call that returned True, if any
    last_return,  \* what the last StateManager call returned
    win,          \* the fields and widgets of the main window
    pngs,         \* the PNG files in the results directory
    fits_on_disk, \* the FITS files that exist
    attempt,      \* the last attempt to close the main window
    fresh         \* the window was launched and nothing was done in it yet

cvars == <<original, eroded, mask, blur_sigma, law, result, mask_smooth, pc>>
dvars == <<image, fwhm, radius_factor, sources, radius, circles, star_mask,
           num_stars, dpc>>
mvars == <<m_image, kernel_size, iterations, eroded_image, dilated_image, mpc>>
fvars == <<img1, img2, diff_norm, fpc>>
nvars == <<data, n_image, nan_cast, npc>>
gvars == <<threshold, made>>
pvars == <<method, config, finder, frame, ppc, callbacks, calls, p_num_stars>>
hvars == <<heap, args, passed, rets, hpc>>
tvars == <<config_class, config_obj, fits_path, entered, loaded_file, used, tpc>>
svars == <<state_file, last_call, last_return>>
wvars == <<win, pngs, fits_on_disk, attempt, fresh>>
vars == <<cvars, dvars, raised, mvars, fvars, nvars, gvars, pvars, hvars, tvars, svars, wvars>>

\* the variables an operation of one group leaves alone
besides_cvars == <<dvars, mvars, fvars, nvars, gvars, pvars, hvars, tvars, svars, wvars>>
besides_dvars == <<cvars, raised, mvars, fvars, nvars, gvars, pvars, hvars, tvars, svars, wvars>>
besides_mvars == <<cvars, dvars, raised, fvars, nvars, gvars, pvars, hvars, tvars, svars, wvars>>
besides_fvars == <<cvars, dvars, mvars, nvars, gvars, pvars, hvars, tvars, svars, wvars>>
besides_gvars == <<cvars, dvars, raised, mvars, fvars, nvars, pvars, hvars, tvars, svars, wvars>>
besides_pvars == <<cvars, dvars, raised, mvars, fvars, nvars, gvars, hvars, tvars, svars, wvars>>
besides_hvars == <<cvars, dvars, raised, mvars, fvars, nvars, gvars, pvars, tvars, svars, wvars>>
besides_tvars == <<cvars, dvars, raised, mvars, fvars, nvars, gvars, pvars, hvars, svars, wvars>>
besides_svars == <<cvars, dvars, raised, mvars, fvars, nvars, gvars, pvars, hvars, tvars, wvars>>
\* the main window's operations use the state file too
besides_wvars == <<cvars, dvars, raised, mvars, fvars, nvars, gvars, pvars, hvars, tvars>>
besides_nvars == <<cvars, dvars, raised, mvars, fvars, gvars, pvars, hvars, tvars, svars, wvars>>

(***************************************************************************)
(* Arrays                                                                  *)
(***************************************************************************)
Pixels(h, w) == (0..(h - 1)) \X (0..(w - 1))

\* number of channel planes of an array with ndim dimensions
NumChannels(ndim) == IF ndim = 3 THEN 3 ELSE 1

\* a two-level test image: levels lv[1] and lv[2] on a checkerboard that
\* is shifted from one channel to the next
TestImage(h, w, ndim, lv) ==
    [h |-> h, w |-> w, ndim |-> ndim,
     px |-> [p \in Pixels(h, w) |->
                [c \in 1..NumChannels(ndim) |->
                    IF (p[1] + p[2] + c) % 2 = 0 THEN lv[1] ELSE lv[2]]]]

\* every 2-D uint8 array of the shape whose samples are 0 or 255
BinaryMasks(h, w) ==
    {[h |-> h, w |-> w, px |-> f] : f \in [Pixels(h, w) -> {0, 255}]}

NoArray == [h |-> 0, w |-> 0, px |-> <<>>]

None == "None"

\* the compositor is idle
CompositeIdle ==
    /\ original = NoArray /\ eroded = NoArray /\ mask = NoArray
    /\ blur_sigma = 50 /\ law = "none"
    /\ result = NoArray /\ mask_smooth = NoArray /\ pc = "idle"

\* the detector is idle
DetectIdle ==
    /\ image = NoArray /\ fwhm = 40 /\ radius_factor = 15
    /\ sources = None /\ radius = None /\ circles = 0
    /\ star_mask = NoArray /\ num_stars = 0 /\ dpc = "idle"

\* no Erosion or Dilatation is in use
MorphIdle ==
    /\ m_image = NoArray /\ kernel_size = 3 /\ iterations = 1
    /\ eroded_image = NoArray /\ dilated_image = NoArray /\ mpc = "idle"

\* no save_difference call is in progress
DiffIdle ==
    img1 = NoArray /\ img2 = NoArray /\ diff_norm = NoArray /\ fpc = "idle"

\* no FITS file is being loaded
NormIdle ==
    /\ data = NoArray /\ n_image = NoArray
    /\ nan_cast = FALSE /\ npc = "idle"

\* no object has been constructed; threshold is Config.STAR_THRESHOLD
ConfigIdle == threshold = 20 /\ made = {}

\* the locals of a method that has not started
NoFrame ==
    [image |-> NoArray, image_gray |-> NoArray, star_mask |-> NoArray,
     num_stars |-> None, eroded_image |-> NoArray, selective_result |-> NoArray,
     smooth_mask |-> NoArray, dilated_image |-> NoArray,
     selective_dilatation_result |-> NoArray, diff_norm |-> NoArray]

\* Config as the class defines it (tenths for the float values)
DefaultConfig ==
    [STAR_FWHM |-> 40, STAR_RADIUS_FACTOR |-> 15, EROSION_KERNEL_SIZE |-> 3,
     EROSION_ITERATIONS |-> 1, MASK_BLUR_SIGMA |-> 50]

\* no pipeline method is running
PipelineIdle ==
    /\ method = None /\ config = DefaultConfig /\ finder = None
    /\ frame = NoFrame /\ ppc = "idle"
    /\ callbacks = {} /\ calls = <<>> /\ p_num_stars = 0

\* no call on array objects is in progress
HeapIdle ==
    /\ heap = <<>> /\ args = <<>> /\ passed = <<>> /\ rets = <<>> /\ hpc = "idle"

\* the field defaults of the dataclass Config: the class attributes when
\* the class is created, and the defaults of the generated __init__
FieldDefaults ==
    [DEFAULT_FITS_FILE |-> "test_M31_linear.fits",
     STAR_FWHM |-> 40, STAR_THRESHOLD |-> 20, STAR_RADIUS_FACTOR |-> 15,
     EROSION_KERNEL_SIZE |-> 3, EROSION_ITERATIONS |-> 1, MASK_BLUR_SIGMA |-> 50]

\* a name that is not bound to an object yet
NoObject == <<>>

\* no terminal program is running
TerminalIdle ==
    /\ config_class = FieldDefaults /\ config_obj = NoObject /\ fits_path = None
    /\ entered = <<>> /\ loaded_file = None /\ used = NoObject /\ tpc = "idle"

\* a file that does not exist
NoFile == [exists |-> FALSE, text |-> <<>>]

\* no StateManager has been used: there is no state file
StateIdle ==
    /\ state_file = NoFile /\ last_call = [op |-> "none"] /\ last_return = None

\* the fields and widgets ImageViewGraphic.__init__ sets up
NewWindow ==
    [open |-> TRUE, image_model |-> None, state_restored |-> FALSE,
     is_closing |-> FALSE, current_displayed_image |-> "original.png",
     num_stars |-> 0, stars_count |-> "--", pixmap |-> None,
     open_enabled |-> TRUE, progress_format |-> "%p%"]

\* no window exists
NoWindow == [NewWindow EXCEPT !.open = FALSE]

\* nobody has tried to close the window
NoAttempt ==
    [via |-> None, needed |-> FALSE, dialog |-> FALSE, answer |-> None,
     displayed |-> None, pixmap |-> None, stars |-> 0, label |-> None,
     pngs |-> {}]

\* the application has not been launched
WindowIdle ==
    /\ win = NoWindow /\ pngs = {} /\ fits_on_disk = {}
    /\ attempt = NoAttempt /\ fresh = FALSE

(***************************************************************************)
(* Numeric helpers                                                         *)
(***************************************************************************)
\* np.clip(v, lo, hi)
Clip(v, lo, hi) == IF v < lo THEN lo ELSE IF v > hi THEN hi ELSE v

\* round(num/den) to the nearest integer, ties to the even integer
\* (Python round, numpy.round), for num >= 0 and den > 0
RoundHalfEven(num, den) ==
    LET q == num \div den
        r == num % den
    IN  IF 2 * r < den THEN q
        ELSE IF 2 * r > den THEN q + 1
        ELSE IF q % 2 = 0 THEN q ELSE q + 1

\* ndarray.astype(np.uint8) of the in-range float num/den: the fraction is
\* dropped (truncation toward zero)
AsTypeUint8(num, den) == num \div den

(***************************************************************************)
(* Mask smoothing: cv.GaussianBlur(mask_float, (3, 3), sigmaX=0, sigmaY=0) *)
(***************************************************************************)
\* denominator of the 3-tap kernel: (1, 2, 1) / 4, the kernel OpenCV uses
\* for ksize 3 when sigma <= 0
KernelDen == 4
GaussKernel3 == <<1, 2, 1>>

\* unit of the smoothed mask: mask_smooth holds k for the float k/MaskScale
MaskScale == KernelDen * KernelDen

\* OpenCV borderInterpolate for BORDER_REFLECT_101 (the default border of
\* GaussianBlur), for the indices -1..len a 3-tap kernel reaches
BorderInterpolate(i, len) ==
    IF len = 1 THEN 0
    ELSE IF i < 0 THEN -i
    ELSE IF i >= len THEN 2 * len - 2 - i
    ELSE i

\* Tap with a zero border (BORDER_CONSTANT) in place of the reflected one
TapZeroBorder(m, y, x) ==
    IF y \in 0..(m.h - 1) /\ x \in 0..(m.w - 1) THEN m.px[<<y, x>>] ELSE 0

\* the sample a kernel tap at row y, column x reads
Tap(m, y, x) ==
    m.px[<<BorderInterpolate(y, m.h), BorderInterpolate(x, m.w)>>]

\* mask.astype(np.float64) / 255.0, for a mask of 0 and 255
MaskFloat(m) ==
    [h |-> m.h, w |-> m.w, px |-> [p \in Pixels(m.h, m.w) |-> m.px[p] \div 255]]

\* the 3x3 blur of a float array, in units of 1/MaskScale; sigma is the
\* constructor's blur_sigma, which the call does not pass on
GaussianBlur3(m, sigma) ==
    [h |-> m.h, w |-> m.w,
     px |-> [p \in Pixels(m.h, m.w) |->
        LET Row(dy) ==   GaussKernel3[1] * Tap(m, p[1] + dy, p[2] - 1)
                       + GaussKernel3[2] * Tap(m, p[1] + dy, p[2])
                       + GaussKernel3[3] * Tap(m, p[1] + dy, p[2] + 1)
        IN    GaussKernel3[1] * Row(-1)
            + GaussKernel3[2] * Row(0)
            + GaussKernel3[3] * Row(1)]]

\* SmoothMask blurring the raw 8-bit mask, neither normalised nor clamped
SmoothMaskRaw(m, sigma) == GaussianBlur3(m, sigma)

\* lines 52-65: normalise, blur, clamp to [0, 1]
SmoothMask(m, sigma) ==
    LET b == GaussianBlur3(MaskFloat(m), sigma)
    IN  [h |-> b.h, w |-> b.w,
         px |-> [p \in Pixels(b.h, b.w) |-> Clip(b.px[p], 0, MaskScale)]]

(***************************************************************************)
(* The two interpolation laws, as numerators over the stated denominator   *)
(***************************************************************************)
\* FullLaw with the two images swapped
FullLawSwapped(ms, o, e) == ms * o + (MaskScale - ms) * e

\* mask_smooth * eroded + (1 - mask_smooth) * original, over MaskScale
FullLaw(ms, o, e) == ms * e + (MaskScale - ms) * o
FullDen == MaskScale

\* HalfLaw without the 0.5 factor on the weight
HalfLawFullWeight(ms, o, e) == 2 * MaskScale * o + 2 * ms * (e - o)

\* original + (0.5 * mask_smooth) * (eroded - original), over 2 * MaskScale
HalfLaw(ms, o, e) == 2 * MaskScale * o + ms * (e - o)
HalfDen == 2 * MaskScale

\* np.clip(result, 0, 255).astype(np.uint8)
ToUint8(num, den) == AsTypeUint8(Clip(num, 0, 255 * den), den)

\* numpy broadcasting of one axis: the lengths agree when each is 1 or
\* the largest, which is then the length of the result
BroadcastLen(lens) == CHOOSE m \in lens : \A x \in lens : m >= x
Broadcastable(lens) == \A x \in lens : x = 1 \/ x = BroadcastLen(lens)

\* the element of a that a broadcast operation pairs with position p: an
\* axis of length 1 is read at index 0 whatever p says
BroadcastAt(a, p) ==
    a.px[<<IF a.h = 1 THEN 0 ELSE p[1], IF a.w = 1 THEN 0 ELSE p[2]>>]

\* shape of the blend expression of the three arrays
BlendH(o, e, ms) == BroadcastLen({o.h, e.h, ms.h})
BlendW(o, e, ms) == BroadcastLen({o.w, e.w, ms.w})

\* whether the blend raises ValueError: the operands do not broadcast, or
\* (colour) the blended channel does not fit result[:, :, i], which has
\* the original's height and width
BlendRaises(o, e, ms) ==
    \/ ~Broadcastable({o.h, e.h, ms.h})
    \/ ~Broadcastable({o.w, e.w, ms.w})
    \/ /\ o.ndim = 3
       /\ (BlendH(o, e, ms) # o.h \/ BlendW(o, e, ms) # o.w)

\* selective_erosion.SelectiveErosion.apply: the composite image
CompositeFull(o, e, ms) ==
    [h |-> BlendH(o, e, ms), w |-> BlendW(o, e, ms), ndim |-> o.ndim,
     px |-> [p \in Pixels(BlendH(o, e, ms), BlendW(o, e, ms)) |->
                [c \in 1..NumChannels(o.ndim) |->
                    ToUint8(FullLaw(BroadcastAt(ms, p), BroadcastAt(o, p)[c],
                                    BroadcastAt(e, p)[c]), FullDen)]]]

\* models.image_model.SelectiveErosion.apply: the composite image
CompositeHalf(o, e, ms) ==
    [h |-> BlendH(o, e, ms), w |-> BlendW(o, e, ms), ndim |-> o.ndim,
     px |-> [p \in Pixels(BlendH(o, e, ms), BlendW(o, e, ms)) |->
                [c \in 1..NumChannels(o.ndim) |->
                    ToUint8(HalfLaw(BroadcastAt(ms, p), BroadcastAt(o, p)[c],
                                    BroadcastAt(e, p)[c]), HalfDen)]]]

(***************************************************************************)
(* Compositor: inputs and operations                                       *)
(***************************************************************************)
InitComposite ==
    /\ DetectIdle
    /\ MorphIdle
    /\ DiffIdle
    /\ raised = None
    /\ NormIdle
    /\ ConfigIdle
    /\ PipelineIdle
    /\ HeapIdle
    /\ TerminalIdle
    /\ StateIdle
    /\ WindowIdle
    /\ \E h \in 1..MaxH, w \in 1..MaxW :
         /\ \E t \in TestInputs :
               /\ original = TestImage(h, w, t[1], t[2])
               /\ eroded = TestImage(h, w, t[1], t[3])
         /\ mask \in BinaryMasks(h, w)
    /\ blur_sigma = 50
    /\ law = "none"
    /\ result = NoArray
    /\ mask_smooth = NoArray
    /\ pc = "ready"

\* SelectiveErosion(blur_sigma=sigma).apply(original, eroded, mask) of
\* src/selective_erosion.py (full-replacement law)
ApplyFull(sigma) ==
    /\ pc \in {"ready", "done"}
    /\ blur_sigma' = sigma
    /\ law' = "full"
    /\ IF BlendRaises(original, eroded, mask)
       THEN /\ raised' = "ValueError"
            /\ mask_smooth' = NoArray
            /\ result' = NoArray
       ELSE /\ raised' = None
            /\ mask_smooth' = SmoothMask(mask, sigma)
            /\ result' = CompositeFull(original, eroded, mask_smooth')
    /\ pc' = "done"
    /\ UNCHANGED <<original, eroded, mask>>
    /\ UNCHANGED besides_cvars

\* SelectiveErosion(blur_sigma=sigma).apply(original, eroded, mask) of
\* src/models (half-strength law)
ApplyHalf(sigma) ==
    /\ pc \in {"ready", "done"}
    /\ blur_sigma' = sigma
    /\ law' = "half"
    /\ IF BlendRaises(original, eroded, mask)
       THEN /\ raised' = "ValueError"
            /\ mask_smooth' = NoArray
            /\ result' = NoArray
       ELSE /\ raised' = None
            /\ mask_smooth' = SmoothMask(mask, sigma)
            /\ result' = CompositeHalf(original, eroded, mask_smooth')
    /\ pc' = "done"
    /\ UNCHANGED <<original, eroded, mask>>
    /\ UNCHANGED besides_cvars

NextComposite ==
    \/ \E sigma \in BlurSigmas : ApplyFull(sigma)
    \/ \E sigma \in BlurSigmas : ApplyHalf(sigma)

SpecComposite == InitComposite /\ [][NextComposite]_vars

(***************************************************************************)
(* Compositor properties                                                   *)
(***************************************************************************)
AllPixels(m, v) == \A p \in Pixels(m.h, m.w) : m.px[p] = v

Abs(n) == IF n < 0 THEN -n ELSE n

\* the pixels whose weight is strictly between 0 and 1
TransitionZone(ms) == {p \in Pixels(ms.h, ms.w) : 0 < ms.px[p] /\ ms.px[p] < MaskScale}

\* C1: under both laws a pixel whose smoothed weight is 0 keeps the
\* original value in every channel, and an all-zero mask returns the
\* original image.
C1_ZeroWeightKeepsOriginal ==
    pc = "done" =>
        /\ \A p \in Pixels(original.h, original.w) :
              mask_smooth.px[p] = 0 => result.px[p] = original.px[p]
        /\ AllPixels(mask, 0) => result = original

C1_Witness ==
    /\ pc = "done"
    /\ \E p, q \in Pixels(original.h, original.w) :
          /\ mask_smooth.px[p] = 0
          /\ mask_smooth.px[q] > 0
          /\ eroded.px[p] # original.px[p]
          /\ result.px[p] = original.px[p]
          /\ result.px[q] # original.px[q]

BlendNum(p, c) ==
    IF law = "full" THEN FullLaw(mask_smooth.px[p], original.px[p][c], eroded.px[p][c])
                    ELSE HalfLaw(mask_smooth.px[p], original.px[p][c], eroded.px[p][c])
BlendDen == IF law = "full" THEN FullDen ELSE HalfDen

\* C3: the 8-bit composite is the real-valued blend rounded to the nearest
\* integer and clipped to [0, 255].
C3_RoundedBlend ==
    pc = "done" =>
        \A p \in Pixels(original.h, original.w) :
            \A c \in 1..NumChannels(original.ndim) :
                result.px[p][c] = Clip(RoundHalfEven(BlendNum(p, c), BlendDen), 0, 255)

\* C4: the smoothed mask is determined by blur_sigma: applying the
\* compositor again to the same mask with a larger blur_sigma widens the
\* transition zone (unless it already covers the whole image).
C4_SigmaWidensTransition ==
    [][(/\ pc = "done" /\ pc' = "done"
        /\ blur_sigma' > blur_sigma
        /\ TransitionZone(mask_smooth) # {}
        /\ TransitionZone(mask_smooth) # Pixels(mask.h, mask.w))
       => Cardinality(TransitionZone(mask_smooth')) > Cardinality(TransitionZone(mask_smooth))]_vars

\* C5: under the half-strength law every composite value lies between the
\* original and the transformed value and is at most ceil(|t - o| / 2)
\* away from the original.
C5_HalfStrengthBound ==
    (pc = "done" /\ law = "half") =>
        \A p \in Pixels(original.h, original.w) :
            \A c \in 1..NumChannels(original.ndim) :
                LET o == original.px[p][c]
                    e == eroded.px[p][c]
                    r == result.px[p][c]
                IN  /\ (o <= r /\ r <= e) \/ (e <= r /\ r <= o)
                    /\ Abs(r - o) <= (Abs(e - o) + 1) \div 2

C5_Witness ==
    /\ pc = "done" /\ law = "half"
    /\ \E p \in Pixels(original.h, original.w) :
          /\ mask_smooth.px[p] = MaskScale
          /\ Abs(eroded.px[p][1] - original.px[p][1]) > 1
          /\ Abs(result.px[p][1] - original.px[p][1])
                = (Abs(eroded.px[p][1] - original.px[p][1]) + 1) \div 2

\* C6: the smoothed mask has the mask's height and width with every value
\* in [0, 1]; the composite has the shape of the original with every value
\* in [0, 255].
C6_ShapesAndRanges ==
    pc = "done" =>
        /\ mask_smooth.h = mask.h /\ mask_smooth.w = mask.w
        /\ DOMAIN mask_smooth.px = Pixels(mask.h, mask.w)
        /\ \A p \in Pixels(mask.h, mask.w) : mask_smooth.px[p] \in 0..MaskScale
        /\ result.h = original.h /\ result.w = original.w
        /\ result.ndim = original.ndim
        /\ DOMAIN result.px = Pixels(original.h, original.w)
        /\ \A p \in Pixels(original.h, original.w) :
              /\ DOMAIN result.px[p] = 1..NumChannels(original.ndim)
              /\ \A c \in 1..NumChannels(original.ndim) : result.px[p][c] \in 0..255

C6_Witness ==
    /\ pc = "done"
    /\ original.ndim = 3
    /\ mask_smooth.h = MaxH /\ mask_smooth.w = MaxW
    /\ TransitionZone(mask_smooth) # {}
    /\ \E p \in Pixels(mask.h, mask.w) : mask_smooth.px[p] = 0
    /\ \E p \in Pixels(mask.h, mask.w) : result.px[p] # original.px[p]

(***************************************************************************)
(* Mask rasteriser: cv.circle(mask, (x, y), radius, 255, -1)               *)
(***************************************************************************)
\* HLine adding the colour to the samples (modulo 256) instead of storing it
HLineAdd(px, y, xl, xr, color) ==
    [q \in DOMAIN px |->
        IF q[1] = y /\ xl <= q[2] /\ q[2] <= xr THEN (px[q] + color) % 256 ELSE px[q]]

\* ICV_HLINE: store the colour in row y, columns xl..xr
HLine(px, y, xl, xr, color) ==
    [q \in DOMAIN px |->
        IF q[1] = y /\ xl <= q[2] /\ q[2] <= xr THEN color ELSE px[q]]

Max(a, b) == IF a >= b THEN a ELSE b
Min(a, b) == IF a <= b THEN a ELSE b

\* one pass of the loop of OpenCV's filled Circle(): the four spans of the
\* octant point (dx, dy), clipped to the array unless the disk is inside it
CircleSpans(m, cx, cy, r, dx, dy) ==
    LET inside == /\ cx >= r /\ cx < m.w - r
                  /\ cy >= r /\ cy < m.h - r
        y11 == cy - dy
        y12 == cy + dy
        y21 == cy - dx
        y22 == cy + dx
        x11 == cx - dx
        x12 == cx + dx
        x21 == cx - dy
        x22 == cx + dy
        InRows(y) == 0 <= y /\ y < m.h
    IN  IF inside
        THEN HLine(HLine(HLine(HLine(m.px, y11, x11, x12, 255),
                               y12, x11, x12, 255),
                         y21, x21, x22, 255),
                   y22, x21, x22, 255)
        ELSE IF x11 < m.w /\ x12 >= 0 /\ y21 < m.h /\ y22 >= 0
        THEN LET xa == Max(x11, 0)
                 xb == Min(x12, m.w - 1)
                 p1 == IF InRows(y11) THEN HLine(m.px, y11, xa, xb, 255) ELSE m.px
                 p2 == IF InRows(y12) THEN HLine(p1, y12, xa, xb, 255) ELSE p1
             IN  IF x21 < m.w /\ x22 >= 0
                 THEN LET xc == Max(x21, 0)
                          xd == Min(x22, m.w - 1)
                          p3 == IF InRows(y21) THEN HLine(p2, y21, xc, xd, 255) ELSE p2
                      IN  IF InRows(y22) THEN HLine(p3, y22, xc, xd, 255) ELSE p3
                 ELSE p2
        ELSE m.px

\* the loop of Circle(): while dx >= dy, draw, then step the octant walk
RECURSIVE CircleLoop(_, _, _, _, _, _, _, _, _)
CircleLoop(m, cx, cy, r, dx, dy, err, plus, minus) ==
    IF dx < dy THEN m
    ELSE LET drawn == [m EXCEPT !.px = CircleSpans(m, cx, cy, r, dx, dy)]
             err1 == err + plus
         IN  IF err1 > 0
             THEN CircleLoop(drawn, cx, cy, r, dx - 1, dy + 1, err1 - minus, plus + 2, minus - 2)
             ELSE CircleLoop(drawn, cx, cy, r, dx, dy + 1, err1, plus + 2, minus)

\* cv.circle with thickness -1: a filled disk of radius r centred on
\* column cx, row cy
Circle(m, cx, cy, r) == CircleLoop(m, cx, cy, r, r, 0, 0, 1, 2 * r - 1)

(***************************************************************************)
(* StarDetector.detect                                                     *)
(***************************************************************************)
\* int(c) of a centroid coordinate rounded to the nearest pixel instead
IntCoordNearest(cq) == (2 * cq + SubPix) \div (2 * SubPix)

\* int(x), int(y): the pixel of a non-negative centroid coordinate cq/SubPix
IntCoord(cq) == cq \div SubPix

\* int(self.fwhm * self.radius_factor), both in tenths
Radius(f, rf) == (f * rf) \div 100

\* len(sources) short by one
NumStarsLessOne(src) == Len(src) - 1

\* num_stars = len(sources)
NumStars(src) == Len(src)

\* ZerosLike filling the array with 255 (np.full_like)
ZerosLikeFilled(img) == [h |-> img.h, w |-> img.w, px |-> [p \in Pixels(img.h, img.w) |-> 255]]

\* np.zeros_like(image_float, dtype=np.uint8)
ZerosLike(img) == [h |-> img.h, w |-> img.w, px |-> [p \in Pixels(img.h, img.w) |-> 0]]

\* the loop over the sources from row i on: one disk per source
RECURSIVE DrawStars(_, _, _, _)
DrawStars(m, src, i, r) ==
    IF i > Len(src) THEN m
    ELSE DrawStars(Circle(m, IntCoord(src[i].x), IntCoord(src[i].y), r), src, i + 1, r)

\* the number of cv.circle calls the loop makes from row i on
RECURSIVE CircleCalls(_, _)
CircleCalls(src, i) == IF i > Len(src) THEN 0 ELSE 1 + CircleCalls(src, i + 1)

\* centroids the finder can report: anywhere in the image
Centroids(img) == [x : 0..(img.w * SubPix - 1), y : 0..(img.h * SubPix - 1)]

\* whole-pixel displacements from one reported source to the next: the same
\* place again, a neighbour, and places further away
Displacements == {<<0, 0>>, <<1, 0>>, <<-2, 3>>}

\* source tables of n rows: a centroid followed by displaced ones
RECURSIVE SourceTables(_, _)
SourceTables(img, n) ==
    IF n = 1 THEN {<<c>> : c \in Centroids(img)}
    ELSE LET shorter == SourceTables(img, n - 1)
             Follow(t, d) == [x |-> t[Len(t)].x + d[1] * SubPix,
                            y |-> t[Len(t)].y + d[2] * SubPix]
         IN  {Append(t, Follow(t, d)) : <<t, d>> \in
                 {td \in shorter \X Displacements : Follow(td[1], td[2]) \in Centroids(img)}}

FwhmTenths == {10, 25, 40}
RadiusFactorTenths == {10, 15}

InitDetect ==
    /\ CompositeIdle
    /\ MorphIdle
    /\ DiffIdle
    /\ raised = None
    /\ NormIdle
    /\ ConfigIdle
    /\ PipelineIdle
    /\ HeapIdle
    /\ TerminalIdle
    /\ StateIdle
    /\ WindowIdle
    /\ image = [h |-> DetH, w |-> DetW, px |-> <<>>]
    /\ fwhm \in FwhmTenths
    /\ radius_factor \in RadiusFactorTenths
    /\ \/ sources = None
       \/ \E n \in 1..MaxStars : sources \in SourceTables([h |-> DetH, w |-> DetW], n)
    /\ radius = None
    /\ circles = 0
    /\ star_mask = NoArray
    /\ num_stars = 0
    /\ dpc = "ready"

\* StarDetector.detect of src/star_detector.py; the copies in
\* models/processing_models.py and models/image_model.py run the same steps
Detect ==
    /\ dpc = "ready"
    /\ IF sources = None
       THEN /\ star_mask' = ZerosLike(image)
            /\ num_stars' = 0
            /\ UNCHANGED <<radius, circles>>
       ELSE /\ num_stars' = NumStars(sources)
            /\ radius' = Radius(fwhm, radius_factor)
            /\ star_mask' = DrawStars(ZerosLike(image), sources, 1, radius')
            /\ circles' = CircleCalls(sources, 1)
    /\ dpc' = "done"
    /\ UNCHANGED <<image, fwhm, radius_factor, sources>>
    /\ UNCHANGED besides_dvars

NextDetect == Detect

SpecDetect == InitDetect /\ [][NextDetect]_vars

(***************************************************************************)
(* Detector properties                                                     *)
(***************************************************************************)
Sq(n) == n * n

\* squared distance, in 1/SubPix pixels, from pixel p = <<row, col>> to the
\* point (xq, yq) / SubPix
Dist2(p, xq, yq) == Sq(p[2] * SubPix - xq) + Sq(p[1] * SubPix - yq)

OneSource == dpc = "done" /\ sources # None /\ Len(sources) = 1

\* C7 as stated: with one detected centroid (x0, y0) and radius r, every
\* pixel within distance r of (x0, y0) is 255 and every pixel further than
\* r + 1 from (x0, y0) is 0.
C7_DiskAroundCentroid ==
    OneSource =>
        \A p \in Pixels(image.h, image.w) :
            LET d2 == Dist2(p, sources[1].x, sources[1].y)
            IN  /\ d2 <= Sq(radius * SubPix) => star_mask.px[p] = 255
                /\ d2 > Sq((radius + 1) * SubPix) => star_mask.px[p] = 0

\* C7 amended: the distances are measured from the pixel the centroid is
\* truncated to, (int(x0), int(y0)).
C7_DiskAroundTruncatedCentroid ==
    OneSource =>
        \A p \in Pixels(image.h, image.w) :
            LET d2 == Dist2(p, (sources[1].x \div SubPix) * SubPix,
                               (sources[1].y \div SubPix) * SubPix)
            IN  /\ d2 <= Sq(radius * SubPix) => star_mask.px[p] = 255
                /\ d2 > Sq((radius + 1) * SubPix) => star_mask.px[p] = 0

C7_Witness ==
    /\ OneSource
    /\ radius >= 2
    /\ sources[1].x % SubPix # 0 /\ sources[1].y % SubPix # 0
    /\ \E p \in Pixels(image.h, image.w) :
          /\ Dist2(p, (sources[1].x \div SubPix) * SubPix,
                      (sources[1].y \div SubPix) * SubPix) = Sq(radius * SubPix)
          /\ star_mask.px[p] = 255
    /\ \E p \in Pixels(image.h, image.w) :
          /\ Dist2(p, (sources[1].x \div SubPix) * SubPix,
                      (sources[1].y \div SubPix) * SubPix) > Sq((radius + 1) * SubPix)
          /\ star_mask.px[p] = 0

\* the disk of one source, drawn alone on an empty canvas
SingleDisk(c) == Circle(ZerosLike(image), c.x \div SubPix, c.y \div SubPix, radius)

\* the table read from the last row to the first
Reversed(src) == [i \in 1..Len(src) |-> src[Len(src) + 1 - i]]

\* C8: the mask of a list of centroids is the pixelwise union of the disks
\* of the single centroids (255 where any disk covers the pixel, 0
\* elsewhere), so it depends neither on the order of the centroids nor on
\* repetitions.
C8_MaskIsUnionOfDisks ==
    (dpc = "done" /\ sources # None) =>
        /\ \A p \in Pixels(image.h, image.w) :
              star_mask.px[p] =
                  IF \E i \in 1..Len(sources) : SingleDisk(sources[i]).px[p] = 255
                  THEN 255 ELSE 0
        /\ star_mask = DrawStars(ZerosLike(image), Reversed(sources), 1, radius)

C8_Witness ==
    /\ dpc = "done" /\ sources # None /\ Len(sources) = 2
    /\ sources[1] # sources[2]
    /\ \E p, q \in Pixels(image.h, image.w) :
          /\ SingleDisk(sources[1]).px[p] = 255 /\ SingleDisk(sources[2]).px[p] = 255
          /\ SingleDisk(sources[1]).px[q] = 255 /\ SingleDisk(sources[2]).px[q] = 0
          /\ star_mask.px[p] = 255 /\ star_mask.px[q] = 255

\* C9: the returned mask has the height and width of the input image,
\* every value is 0 or 255, and the returned count is the number of
\* sources whose disks were drawn.
C9_MaskShapeAndCount ==
    dpc = "done" =>
        /\ star_mask.h = image.h /\ star_mask.w = image.w
        /\ DOMAIN star_mask.px = Pixels(image.h, image.w)
        /\ \A p \in Pixels(image.h, image.w) : star_mask.px[p] \in {0, 255}
        /\ num_stars = circles

C9_Witness ==
    /\ dpc = "done" /\ sources # None
    /\ num_stars = MaxStars /\ circles = MaxStars
    /\ \E p, q \in Pixels(image.h, image.w) :
          star_mask.px[p] = 0 /\ star_mask.px[q] = 255

\* C10: the disk radius is round(fwhm * radius_factor).
C10_RadiusIsRounded ==
    (dpc = "done" /\ sources # None) =>
        radius = RoundHalfEven(fwhm * radius_factor, 100)

\* C11: when the finder reports no source, detect returns an all-zero mask
\* of the input's height and width and a count of 0, and raises nothing.
C11_NoSourceGivesEmptyMask ==
    (dpc = "done" /\ sources = None) =>
        /\ star_mask.h = image.h /\ star_mask.w = image.w
        /\ DOMAIN star_mask.px = Pixels(image.h, image.w)
        /\ \A p \in Pixels(image.h, image.w) : star_mask.px[p] = 0
        /\ num_stars = 0
        /\ raised = None

C11_Witness ==
    /\ dpc = "done" /\ sources = None
    /\ image.h = DetH /\ image.w = DetW
    /\ num_stars = 0 /\ star_mask.px[<<0, 0>>] = 0

(***************************************************************************)
(* Morphology: cv.erode(image, np.ones((k, k)), iterations=n) and the      *)
(* dilation that the pipeline applies to the eroded image                  *)
(***************************************************************************)
KernelSizes == {1, 2, 3}
IterationCounts == {0, 1, 2}

SetMin(S) == CHOOSE m \in S : \A x \in S : m <= x
SetMax(S) == CHOOSE m \in S : \A x \in S : m >= x

\* Anchor with the anchor on the first kernel element
AnchorFirst(k) == 0

\* the default anchor (-1, -1) of a k-wide kernel: its centre k / 2
Anchor(k) == k \div 2

\* MorphTaps reading 0 outside the image (a zero border)
MorphTapsZeroBorder(img, p, c, k, a) ==
    {IF <<p[1] + dy, p[2] + dx>> \in Pixels(img.h, img.w)
        THEN img.px[<<p[1] + dy, p[2] + dx>>][c] ELSE 0 :
            <<dy, dx>> \in ((-a)..(k - 1 - a)) \X ((-a)..(k - 1 - a))}

\* the samples of channel c under a k x k kernel with anchor a placed on
\* pixel p; positions outside the image are left out (cv.erode's default
\* border is the constant +DBL_MAX, cv.dilate's is -DBL_MAX)
MorphTaps(img, p, c, k, a) ==
    {img.px[q][c] : q \in {r \in Pixels(img.h, img.w) :
                              /\ r[1] - p[1] \in (-a)..(k - 1 - a)
                              /\ r[2] - p[2] \in (-a)..(k - 1 - a)}}

\* one erosion pass with a k x k kernel anchored at a
ErodePass(img, k, a) ==
    [img EXCEPT !.px = [p \in Pixels(img.h, img.w) |->
        [c \in 1..NumChannels(img.ndim) |-> SetMin(MorphTaps(img, p, c, k, a))]]]

\* one dilation pass with a k x k kernel anchored at a
DilatePass(img, k, a) ==
    [img EXCEPT !.px = [p \in Pixels(img.h, img.w) |->
        [c \in 1..NumChannels(img.ndim) |-> SetMax(MorphTaps(img, p, c, k, a))]]]

\* Erode that runs one pass whatever the iteration count
ErodeAtLeastOnce(img, k, n) == ErodePass(img, k, Anchor(k))

\* cv.erode: a copy for 0 iterations or a 1 x 1 kernel; n > 1 iterations of
\* a full kernel are one pass of the kernel grown to k + (n-1)(k-1) with
\* the anchor multiplied by n
Erode(img, k, n) ==
    IF n = 0 \/ k * k = 1 THEN img
    ELSE IF n > 1 THEN ErodePass(img, k + (n - 1) * (k - 1), Anchor(k) * n)
    ELSE ErodePass(img, k, Anchor(k))

\* Dilatation.apply: the maximum over the same neighbourhoods
Dilate(img, k, n) ==
    IF n = 0 \/ k * k = 1 THEN img
    ELSE IF n > 1 THEN DilatePass(img, k + (n - 1) * (k - 1), Anchor(k) * n)
    ELSE DilatePass(img, k, Anchor(k))

\* every grayscale image of the shape whose samples are 0 or 255
BinaryImages(h, w) ==
    {[h |-> h, w |-> w, ndim |-> 2, px |-> [p \in Pixels(h, w) |-> <<f[p]>>]] :
        f \in [Pixels(h, w) -> {0, 255}]}

InitMorph ==
    /\ CompositeIdle
    /\ DetectIdle
    /\ DiffIdle
    /\ raised = None
    /\ NormIdle
    /\ ConfigIdle
    /\ PipelineIdle
    /\ HeapIdle
    /\ TerminalIdle
    /\ StateIdle
    /\ WindowIdle
    /\ \E h \in 1..MaxH, w \in 1..MaxW :
          \/ m_image \in BinaryImages(h, w)
          \/ \E t \in TestInputs : m_image = TestImage(h, w, 3, t[2])
    /\ kernel_size \in KernelSizes
    /\ iterations \in IterationCounts
    /\ eroded_image = NoArray
    /\ dilated_image = NoArray
    /\ mpc = "ready"

\* eroded_image = Erosion(kernel_size, iterations).apply(image)
ErosionApply ==
    /\ mpc = "ready"
    /\ eroded_image' = Erode(m_image, kernel_size, iterations)
    /\ mpc' = "eroded"
    /\ UNCHANGED <<m_image, kernel_size, iterations, dilated_image>>
    /\ UNCHANGED besides_mvars

\* dilated_image = Dilatation(kernel_size, iterations).apply(eroded_image)
DilatationApply ==
    /\ mpc = "eroded"
    /\ dilated_image' = Dilate(eroded_image, kernel_size, iterations)
    /\ mpc' = "dilated"
    /\ UNCHANGED <<m_image, kernel_size, iterations, eroded_image>>
    /\ UNCHANGED besides_mvars

NextMorph == ErosionApply \/ DilatationApply

SpecMorph == InitMorph /\ [][NextMorph]_vars

(***************************************************************************)
(* Morphology properties                                                   *)
(***************************************************************************)
\* the minimum over the k x k neighbourhood of p when positions outside the
\* image take the value of the nearest edge pixel
ReplicatedMin(img, p, c, k) ==
    SetMin({img.px[<<Clip(p[1] + dy, 0, img.h - 1), Clip(p[2] + dx, 0, img.w - 1)>>][c] :
              <<dy, dx>> \in ((-(k \div 2))..(k - 1 - (k \div 2)))
                             \X ((-(k \div 2))..(k - 1 - (k \div 2)))})

RECURSIVE ReplicatedErode(_, _, _)
ReplicatedErode(img, k, n) ==
    IF n = 0 THEN img
    ELSE LET prev == ReplicatedErode(img, k, n - 1)
             done == [p \in Pixels(img.h, img.w) |->
                        [c \in 1..NumChannels(img.ndim) |-> ReplicatedMin(prev, p, c, k)]]
         IN  [img EXCEPT !.px = done]

\* C12: every output pixel of Erosion.apply is the minimum of the input
\* over its k x k neighbourhood with a replicated border, per channel, the
\* pass being repeated iterations times.
C12_ErosionIsReplicatedMin ==
    (mpc # "idle" /\ mpc # "ready" /\ iterations >= 1) =>
        eroded_image = ReplicatedErode(m_image, kernel_size, iterations)

C12_Witness ==
    /\ mpc = "eroded" /\ iterations = 2 /\ kernel_size = 2
    /\ m_image.ndim = 3 /\ m_image.h = MaxH /\ m_image.w = MaxW
    /\ eroded_image # m_image
    /\ \E p \in Pixels(m_image.h, m_image.w) : eroded_image.px[p] = m_image.px[p]

Foreground(img) == {p \in Pixels(img.h, img.w) : img.px[p][1] = 255}

IsBinary(img) == img.ndim = 2 /\ \A p \in Pixels(img.h, img.w) : img.px[p][1] \in {0, 255}

\* C13 as stated: for a binary image and any positive kernel_size and
\* iterations, eroding then dilating never gives a larger foreground.
C13_OpeningNeverGrows ==
    (mpc = "dilated" /\ IsBinary(m_image)) =>
        Cardinality(Foreground(dilated_image)) <= Cardinality(Foreground(m_image))

\* C13 amended: for a binary image, an odd kernel_size and any iterations,
\* the foreground after eroding then dilating lies inside the original
\* foreground (so it is never larger).
C13_OddOpeningNeverGrows ==
    (mpc = "dilated" /\ IsBinary(m_image) /\ kernel_size % 2 = 1) =>
        /\ Foreground(dilated_image) \subseteq Foreground(m_image)
        /\ Cardinality(Foreground(dilated_image)) <= Cardinality(Foreground(m_image))

C13_Witness ==
    /\ mpc = "dilated" /\ IsBinary(m_image) /\ kernel_size = 3 /\ iterations = 1
    /\ Foreground(m_image) # {}
    /\ Foreground(eroded_image) # Foreground(m_image)
    /\ Foreground(dilated_image) # Foreground(eroded_image)
    /\ Foreground(dilated_image) \subseteq Foreground(m_image)

\* C14: with iterations = 0 Erosion.apply returns its input.
C14_ZeroIterationsIsIdentity ==
    (mpc # "idle" /\ mpc # "ready" /\ iterations = 0) => eroded_image = m_image

C14_Witness ==
    /\ mpc = "eroded" /\ iterations = 0 /\ kernel_size = 3
    /\ eroded_image = m_image
    /\ ErodePass(m_image, 3, 1) # m_image

(***************************************************************************)
(* ImageModel.save_difference(img1, img2)                                  *)
(***************************************************************************)
\* the two sample levels of the images handed to save_difference
DiffLevels == {<<0, 0>>, <<7, 7>>, <<3, 255>>, <<255, 3>>}

\* np.abs(img1.astype(np.float32) - img2.astype(np.float32)), the two
\* arrays broadcast against each other
AbsDiff(a, b) ==
    [h |-> BroadcastLen({a.h, b.h}), w |-> BroadcastLen({a.w, b.w}), ndim |-> a.ndim,
     px |-> [p \in Pixels(BroadcastLen({a.h, b.h}), BroadcastLen({a.w, b.w})) |->
                [c \in 1..NumChannels(a.ndim) |->
                    IF BroadcastAt(a, p)[c] >= BroadcastAt(b, p)[c]
                    THEN BroadcastAt(a, p)[c] - BroadcastAt(b, p)[c]
                    ELSE BroadcastAt(b, p)[c] - BroadcastAt(a, p)[c]]]]

\* whether the subtraction raises ValueError
DiffRaises(a, b) == ~Broadcastable({a.h, b.h}) \/ ~Broadcastable({a.w, b.w})

\* diff.max(): the largest sample over all pixels and channels
ArrayMax(d) ==
    SetMax({d.px[p][c] : p \in Pixels(d.h, d.w), c \in 1..NumChannels(d.ndim)})

\* (diff / diff.max() * 255).astype(np.uint8)
ScaleToMax(d, mx) ==
    [d EXCEPT !.px = [p \in Pixels(d.h, d.w) |->
        [c \in 1..NumChannels(d.ndim) |-> AsTypeUint8(d.px[p][c] * 255, mx)]]]

\* DiffNorm dividing by diff.max() without looking at it: 0/0 is NaN, and
\* the cast of NaN to uint8 is whatever the platform gives, here 255
DiffNormUnguarded(d) ==
    IF ArrayMax(d) = 0
    THEN [d EXCEPT !.px = [p \in Pixels(d.h, d.w) |->
                              [c \in 1..NumChannels(d.ndim) |-> 255]]]
    ELSE ScaleToMax(d, ArrayMax(d))

\* lines 198-201: scale to 0..255 when diff.max() > 0, else cast as is
DiffNorm(d) ==
    IF ArrayMax(d) > 0 THEN ScaleToMax(d, ArrayMax(d)) ELSE d

InitDifference ==
    /\ CompositeIdle
    /\ DetectIdle
    /\ MorphIdle
    /\ raised = None
    /\ NormIdle
    /\ ConfigIdle
    /\ PipelineIdle
    /\ HeapIdle
    /\ TerminalIdle
    /\ StateIdle
    /\ WindowIdle
    /\ \E nd \in {2, 3}, h1, h2 \in 1..MaxH, w1, w2 \in 1..MaxW :
       \E lv1, lv2 \in DiffLevels :
          /\ img1 = TestImage(h1, w1, nd, lv1)
          /\ img2 = TestImage(h2, w2, nd, lv2)
    /\ diff_norm = NoArray
    /\ fpc = "ready"

\* ImageModel.save_difference(img1, img2)
SaveDifference ==
    /\ fpc = "ready"
    /\ IF DiffRaises(img1, img2)
       THEN /\ raised' = "ValueError"
            /\ diff_norm' = NoArray
       ELSE /\ raised' = None
            /\ diff_norm' = DiffNorm(AbsDiff(img1, img2))
    /\ fpc' = "done"
    /\ UNCHANGED <<img1, img2>>
    /\ UNCHANGED besides_fvars

NextDifference == SaveDifference

SpecDifference == InitDifference /\ [][NextDifference]_vars

\* C15: the difference of two equal images is all-zero: with a maximum
\* difference of 0 the output is all-zero and nothing is raised.
C15_EqualImagesGiveZero ==
    (fpc = "done" /\ img1 = img2) =>
        /\ raised = None
        /\ diff_norm.h = img1.h /\ diff_norm.w = img1.w
        /\ DOMAIN diff_norm.px = Pixels(img1.h, img1.w)
        /\ \A p \in Pixels(img1.h, img1.w) :
              \A c \in 1..NumChannels(img1.ndim) : diff_norm.px[p][c] = 0

C15_Witness ==
    /\ fpc = "done" /\ img1 = img2
    /\ img1.h = MaxH /\ img1.w = MaxW /\ img1.ndim = 3
    /\ img1.px[<<0, 0>>] # img1.px[<<0, 1>>]
    /\ diff_norm.px[<<0, 0>>] = <<0, 0, 0>>

(***************************************************************************)
(* Calls with arrays of different height or width                          *)
(***************************************************************************)
\* a mask of the shape: all foreground (kind 0) or a checkerboard (kind 1)
TestMask(h, w, kind) ==
    [h |-> h, w |-> w,
     px |-> [p \in Pixels(h, w) |->
                IF kind = 0 \/ (p[1] + p[2]) % 2 = 0 THEN 255 ELSE 0]]

InitMismatch ==
    /\ DetectIdle
    /\ MorphIdle
    /\ DiffIdle
    /\ raised = None
    /\ NormIdle
    /\ ConfigIdle
    /\ PipelineIdle
    /\ HeapIdle
    /\ TerminalIdle
    /\ StateIdle
    /\ WindowIdle
    /\ \E t \in TestInputs, h1, h2, h3 \in 1..MaxH, w1, w2, w3 \in 1..MaxW :
          /\ original = TestImage(h1, w1, t[1], t[2])
          /\ eroded = TestImage(h2, w2, t[1], t[3])
          /\ \E kind \in {0, 1} : mask = TestMask(h3, w3, kind)
    /\ blur_sigma = 50
    /\ law = "none"
    /\ result = NoArray
    /\ mask_smooth = NoArray
    /\ pc = "ready"

InitShapes == InitMismatch \/ InitDifference

NextShapes == NextComposite \/ NextDifference

SpecShapes == InitShapes /\ [][NextShapes]_vars

SameShape(a, b) == a.h = b.h /\ a.w = b.w

\* C19: a compositing or difference call whose arrays differ in height or
\* width raises an error and returns no image.
C19_MismatchRaises ==
    /\ (pc = "done" /\ ~(SameShape(original, eroded) /\ SameShape(original, mask))) =>
          (raised # None /\ result = NoArray)
    /\ (fpc = "done" /\ ~SameShape(img1, img2)) =>
          (raised # None /\ diff_norm = NoArray)

(***************************************************************************)
(* ImageModel._prepare_for_opencv: min-max normalisation to uint8          *)
(***************************************************************************)
\* sample values of the FITS arrays: the first sample, and the step from
\* one sample to the next in each channel (0: a flat channel)
RawBases == {2, 7}
RawSteps == {<<0, 0, 0>>, <<1, 1, 1>>, <<3, 0, 1>>, <<0, 2, 3>>}

\* a FITS array whose channel c rises by st[c] from one pixel to the next
RampImage(h, w, ndim, base, st) ==
    [h |-> h, w |-> w, ndim |-> ndim,
     px |-> [p \in Pixels(h, w) |->
                [c \in 1..NumChannels(ndim) |-> base + c + st[c] * (p[1] * w + p[2])]]]

\* sample values of the FITS files that hold an 8-bit image
ByteLevels == {<<0, 255, 128>>, <<255, 1, 0, 254>>, <<77, 255, 0, 3, 200>>}

\* a grayscale uint8 array that runs through the levels lv
ByteImage(h, w, lv) ==
    [h |-> h, w |-> w, ndim |-> 2,
     px |-> [p \in Pixels(h, w) |-> <<lv[((p[1] * w + p[2]) % Len(lv)) + 1]>>]]

\* what the cast of NaN to uint8 can give: the conversion is undefined
NaNCasts == {0, 255}

\* channel.min() and channel.max()
ChannelMin(a, c) == SetMin({a.px[p][c] : p \in Pixels(a.h, a.w)})
ChannelMax(a, c) == SetMax({a.px[p][c] : p \in Pixels(a.h, a.w)})

\* NormSample with the denominator one too large
NormSampleOffByOne(x, mn, mx, nan) ==
    IF mx = mn THEN nan ELSE AsTypeUint8((x - mn) * 255, mx - mn + 1)

\* ((x - min) / (max - min) * 255).astype('uint8'); with max = min the
\* quotient is 0/0 = NaN and the cast gives nan
NormSample(x, mn, mx, nan) ==
    IF mx = mn THEN nan ELSE AsTypeUint8((x - mn) * 255, mx - mn)

\* the normalised channels, each against its own minimum and maximum (a
\* grayscale array is its only channel)
NormChannels(a, nan) ==
    [a EXCEPT !.px = [p \in Pixels(a.h, a.w) |->
        [c \in 1..NumChannels(a.ndim) |->
            NormSample(a.px[p][c], ChannelMin(a, c), ChannelMax(a, c), nan)]]]

\* cv.cvtColor(image, cv.COLOR_RGB2BGR): the channels in reverse order
CvtColorRGB2BGR(a) ==
    [a EXCEPT !.px = [p \in Pixels(a.h, a.w) |->
        [c \in 1..3 |-> a.px[p][4 - c]]]]

\* _prepare_for_opencv(a)
PrepareForOpenCV(a, nan) ==
    IF a.ndim = 3 THEN CvtColorRGB2BGR(NormChannels(a, nan)) ELSE NormChannels(a, nan)

\* whether some channel of a has max = min, so that NaN is cast
HasFlatChannel(a) ==
    \E c \in 1..NumChannels(a.ndim) : ChannelMax(a, c) = ChannelMin(a, c)

InitNormalize ==
    /\ CompositeIdle
    /\ DetectIdle
    /\ MorphIdle
    /\ DiffIdle
    /\ ConfigIdle
    /\ PipelineIdle
    /\ HeapIdle
    /\ TerminalIdle
    /\ StateIdle
    /\ WindowIdle
    /\ raised = None
    /\ \E h \in 1..MaxH, w \in 1..MaxW :
          \/ \E nd \in {2, 3}, b \in RawBases, st \in RawSteps :
                data = RampImage(h, w, nd, b, st)
          \/ \E lv \in ByteLevels : data = ByteImage(h, w, lv)
    /\ n_image = NoArray
    /\ nan_cast = FALSE
    /\ npc = "ready"

\* load_fits, line 56: self.image = self._prepare_for_opencv(data)
LoadFits ==
    /\ npc = "ready"
    /\ \E nan \in NaNCasts : n_image' = PrepareForOpenCV(data, nan)
    /\ nan_cast' = HasFlatChannel(data)
    /\ npc' = "loaded"
    /\ UNCHANGED data
    /\ UNCHANGED besides_nvars

NextNormalize == LoadFits

SpecNormalize == InitNormalize /\ [][NextNormalize]_vars

\* C16: a flat image or channel (max = min) normalises to all-zero output,
\* with no error and no undefined value.
C16_FlatGivesZero ==
    npc = "loaded" =>
        /\ raised = None
        /\ ~nan_cast
        /\ \A c \in 1..NumChannels(data.ndim) :
              ChannelMax(data, c) = ChannelMin(data, c) =>
                 \A p \in Pixels(data.h, data.w) :
                    n_image.px[p][IF data.ndim = 3 THEN 4 - c ELSE c] = 0

FwhmArgs == {-10, 0, 40}
ThresholdArgs == {-5, 0, 20}
RadiusFactorArgs == {-15, 0, 15}
KernelSizeArgs == {-1, 0, 3}
IterationsArgs == {-1, 0, 1}
BlurSigmaArgs == {-10, 0, 50}

InitConfig ==
    /\ CompositeIdle
    /\ DetectIdle
    /\ MorphIdle
    /\ DiffIdle
    /\ NormIdle
    /\ ConfigIdle
    /\ PipelineIdle
    /\ HeapIdle
    /\ TerminalIdle
    /\ StateIdle
    /\ WindowIdle
    /\ raised = None

\* StarDetector(fwhm=f, threshold=t, radius_factor=rf)
NewStarDetector(f, t, rf) ==
    /\ fwhm' = f
    /\ threshold' = t
    /\ radius_factor' = rf
    /\ made' = made \cup {"StarDetector"}
    /\ UNCHANGED <<image, sources, radius, circles, star_mask, num_stars, dpc>>
    /\ UNCHANGED <<cvars, raised, mvars, fvars, nvars, pvars, hvars, tvars, svars, wvars>>

\* Erosion(kernel_size=k, iterations=n)
NewErosion(k, n) ==
    /\ kernel_size' = k
    /\ iterations' = n
    /\ made' = made \cup {"Erosion"}
    /\ UNCHANGED <<m_image, eroded_image, dilated_image, mpc>>
    /\ UNCHANGED <<cvars, dvars, raised, fvars, nvars, threshold, pvars, hvars, tvars, svars, wvars>>

\* SelectiveErosion(blur_sigma=s)
NewSelectiveErosion(s) ==
    /\ blur_sigma' = s
    /\ made' = made \cup {"SelectiveErosion"}
    /\ UNCHANGED <<original, eroded, mask, law, result, mask_smooth, pc>>
    /\ UNCHANGED <<dvars, raised, mvars, fvars, nvars, threshold, pvars, hvars, tvars, svars, wvars>>

NextConfig ==
    \/ \E f \in FwhmArgs, t \in ThresholdArgs, rf \in RadiusFactorArgs :
          NewStarDetector(f, t, rf)
    \/ \E k \in KernelSizeArgs, n \in IterationsArgs : NewErosion(k, n)
    \/ \E s \in BlurSigmaArgs : NewSelectiveErosion(s)

SpecConfig == InitConfig /\ [][NextConfig]_vars

\* C18: a non-positive fwhm, threshold or radius_factor, or a negative
\* kernel_size, iterations or blur_sigma, is rejected with an error: no
\* object holds such a value.
C18_InvalidConfigurationRejected ==
    /\ "StarDetector" \in made => (fwhm > 0 /\ threshold > 0 /\ radius_factor > 0)
    /\ "Erosion" \in made => (kernel_size >= 0 /\ iterations >= 0)
    /\ "SelectiveErosion" \in made => blur_sigma >= 0

(***************************************************************************)
(* PipelineController.run and PipelineController.run_with_fits_path        *)
(***************************************************************************)
\* the Config values the runs use: the class defaults, and a smaller fwhm
\* and kernel
\* the callbacks a controller can be constructed with
AllCallbacks == {"on_progress", "on_stars_detected", "on_results_ready"}
CallbackSets == {{}, {"on_progress"}, AllCallbacks}

\* the eight result files, in the order of _result_paths
ResultPaths ==
    <<"original.png", "starmask.png", "eroded.png", "selective_eroded.png",
      "smooth_mask.png", "dilated.png", "selective_dilated.png", "difference.png">>

\* one callback call
Call(name, step, count, paths) ==
    [name |-> name, step |-> step, count |-> count, paths |-> paths]

\* OnProgress without the call
OnProgressSilent(cs, step) == cs

\* if self.on_progress: self.on_progress(step, ...), in run_with_fits_path
OnProgress(cs, step) ==
    IF method = "run_with_fits_path" /\ "on_progress" \in callbacks
    THEN Append(cs, Call("on_progress", step, 0, <<>>))
    ELSE cs

\* OnStarsDetected reporting one star too many
OnStarsDetectedOffByOne(cs, n) ==
    IF method = "run_with_fits_path" /\ "on_stars_detected" \in callbacks
    THEN Append(cs, Call("on_stars_detected", 0, n + 1, <<>>))
    ELSE cs

\* if self.on_stars_detected: self.on_stars_detected(num_stars)
OnStarsDetected(cs, n) ==
    IF method = "run_with_fits_path" /\ "on_stars_detected" \in callbacks
    THEN Append(cs, Call("on_stars_detected", 0, n, <<>>))
    ELSE cs

\* if self.on_results_ready: self.on_results_ready(self._result_paths)
OnResultsReady(cs, paths) ==
    IF method = "run_with_fits_path" /\ "on_results_ready" \in callbacks
    THEN Append(cs, Call("on_results_ready", 0, 0, paths))
    ELSE cs

Configs ==
    {[DefaultConfig EXCEPT !.STAR_FWHM = f, !.EROSION_KERNEL_SIZE = k] :
        f \in {10, 40}, k \in {2, 3}}

InitPipeline ==
    /\ CompositeIdle
    /\ DetectIdle
    /\ MorphIdle
    /\ DiffIdle
    /\ NormIdle
    /\ ConfigIdle
    /\ HeapIdle
    /\ TerminalIdle
    /\ StateIdle
    /\ WindowIdle
    /\ raised = None
    /\ method \in {"run", "run_with_fits_path"}
    /\ config \in Configs
    /\ callbacks \in CallbackSets
    /\ finder = None
    /\ frame = NoFrame
    /\ calls = <<>>
    /\ p_num_stars = 0
    /\ ppc = "start"

\* step 1: image_model = ImageModel(fits_path, ...); the image in the file
\* and the sources DAOStarFinder will find in it are the inputs
StepLoad ==
    /\ ppc = "start"
    /\ \E h \in 1..MaxH, w \in 1..MaxW, t \in TestInputs :
          /\ frame' = [NoFrame EXCEPT !.image = TestImage(h, w, t[1], t[2])]
          /\ \/ finder' = None
             \/ finder' \in SourceTables([h |-> h, w |-> w], 1)
    /\ calls' = OnProgress(calls, 0)
    /\ ppc' = "loaded"
    /\ UNCHANGED <<method, config, callbacks, p_num_stars>>
    /\ UNCHANGED besides_pvars

\* step 2: image_gray = image_model.get_gray_image();
\* star_mask, num_stars = detector.detect(image_gray)
StepDetect ==
    /\ ppc = "loaded"
    /\ LET gray == [h |-> frame.image.h, w |-> frame.image.w, px |-> <<>>]
           r == Radius(config.STAR_FWHM, config.STAR_RADIUS_FACTOR)
       IN  frame' = [frame EXCEPT
              !.image_gray = gray,
              !.star_mask = IF finder = None THEN ZerosLike(gray)
                            ELSE DrawStars(ZerosLike(gray), finder, 1, r),
              !.num_stars = IF finder = None THEN 0 ELSE NumStars(finder)]
    /\ ppc' = "detected"
    /\ calls' = OnStarsDetected(OnProgress(calls, 1), frame'.num_stars)
    /\ p_num_stars' = IF method = "run_with_fits_path" THEN frame'.num_stars
                      ELSE p_num_stars
    /\ UNCHANGED <<method, config, finder, callbacks>>
    /\ UNCHANGED besides_pvars

\* step 3: eroded_image = erosion.apply(image_model.image)
StepErosion ==
    /\ ppc = "detected"
    /\ frame' = [frame EXCEPT
          !.eroded_image = Erode(frame.image, config.EROSION_KERNEL_SIZE,
                                 config.EROSION_ITERATIONS)]
    /\ ppc' = "eroded"
    /\ calls' = OnProgress(calls, 2)
    /\ UNCHANGED <<method, config, finder, callbacks, p_num_stars>>
    /\ UNCHANGED besides_pvars

\* step 4: selective_result, smooth_mask =
\*             selective.apply(image_model.image, eroded_image, star_mask)
StepSelectiveErosion ==
    /\ ppc = "eroded"
    /\ LET ms == SmoothMask(frame.star_mask, config.MASK_BLUR_SIGMA)
       IN  frame' = [frame EXCEPT
              !.smooth_mask = ms,
              !.selective_result = CompositeHalf(frame.image, frame.eroded_image, ms)]
    /\ ppc' = "selected"
    /\ calls' = OnProgress(calls, 3)
    /\ UNCHANGED <<method, config, finder, callbacks, p_num_stars>>
    /\ UNCHANGED besides_pvars

\* step 5: dilated_image = dilatation.apply(eroded_image)
StepDilatation ==
    /\ ppc = "selected"
    /\ frame' = [frame EXCEPT
          !.dilated_image = Dilate(frame.eroded_image, config.EROSION_KERNEL_SIZE,
                                   config.EROSION_ITERATIONS)]
    /\ ppc' = "dilated"
    /\ calls' = OnProgress(calls, 4)
    /\ UNCHANGED <<method, config, finder, callbacks, p_num_stars>>
    /\ UNCHANGED besides_pvars

\* step 6: selective_dilatation_result, _ =
\*             selective_dilatation.apply(image_model.image, dilated_image, star_mask)
StepSelectiveDilatation ==
    /\ ppc = "dilated"
    /\ LET ms == SmoothMask(frame.star_mask, config.MASK_BLUR_SIGMA)
       IN  frame' = [frame EXCEPT
              !.selective_dilatation_result =
                  CompositeHalf(frame.image, frame.dilated_image, ms)]
    /\ ppc' = "selective_dilated"
    /\ calls' = OnProgress(calls, 5)
    /\ UNCHANGED <<method, config, finder, callbacks, p_num_stars>>
    /\ UNCHANGED besides_pvars

\* DifferenceArgs with the dilated image in place of the eroded one
DifferenceArgsDilated(fr) == <<fr.dilated_image, fr.selective_result>>

\* the arguments of the save_difference call
DifferenceArgs(fr) == <<fr.eroded_image, fr.selective_result>>

\* step 7: image_model.save_difference(eroded_image, selective_result)
StepDifference ==
    /\ ppc = "selective_dilated"
    /\ frame' = [frame EXCEPT
          !.diff_norm = DiffNorm(AbsDiff(DifferenceArgs(frame)[1], DifferenceArgs(frame)[2]))]
    /\ ppc' = "done"
    /\ calls' = OnResultsReady(OnProgress(calls, 6), ResultPaths)
    /\ UNCHANGED <<method, config, finder, callbacks, p_num_stars>>
    /\ UNCHANGED besides_pvars

NextPipeline ==
    \/ StepLoad
    \/ StepDetect
    \/ StepErosion
    \/ StepSelectiveErosion
    \/ StepDilatation
    \/ StepSelectiveDilatation
    \/ StepDifference

SpecPipeline == InitPipeline /\ [][NextPipeline]_vars

\* C20: in every run, detection has finished before its mask is used,
\* detection and global erosion have finished before selective erosion
\* starts, selective erosion has finished before the difference is
\* computed, and the difference is that of the globally eroded image and
\* the selective-erosion result.
C20_StageOrder ==
    /\ frame.selective_result # NoArray =>
          /\ frame.star_mask # NoArray
          /\ frame.eroded_image # NoArray
          /\ frame.smooth_mask = SmoothMask(frame.star_mask, config.MASK_BLUR_SIGMA)
    /\ frame.selective_dilatation_result # NoArray => frame.star_mask # NoArray
    /\ frame.diff_norm # NoArray =>
          /\ frame.selective_result # NoArray
          /\ frame.eroded_image # NoArray
          /\ LET D(p, c) == Abs(frame.eroded_image.px[p][c]
                                  - frame.selective_result.px[p][c])
                 M == SetMax({D(p, c) : p \in Pixels(frame.image.h, frame.image.w),
                                        c \in 1..NumChannels(frame.image.ndim)})
             IN  \A p \in Pixels(frame.image.h, frame.image.w) :
                    \A c \in 1..NumChannels(frame.image.ndim) :
                       frame.diff_norm.px[p][c] =
                          IF M = 0 THEN 0 ELSE (D(p, c) * 255) \div M

C20_Witness ==
    /\ ppc = "done" /\ method = "run_with_fits_path"
    /\ frame.num_stars = 1
    /\ frame.eroded_image # frame.image
    /\ frame.dilated_image # frame.eroded_image
    /\ frame.selective_result # frame.eroded_image
    /\ frame.selective_result # frame.image
    /\ \E p \in Pixels(frame.image.h, frame.image.w) :
          frame.diff_norm.px[p][1] = 255

(***************************************************************************)
(* Array identity: what detect and the two apply methods do to the arrays  *)
(* they are handed and which arrays they hand back                         *)
(***************************************************************************)
\* NewArray writing into the most recently created array (an in-place
\* operation, dst = the operand) instead of allocating
NewArrayInPlace(hp, a) == [hp EXCEPT ![Len(hp)] = a]

\* a numpy or cv call that returns its result in a new ndarray (astype,
\* copy, zeros_like, an arithmetic expression, GaussianBlur, clip, erode):
\* the new object gets the next identity
NewArray(hp, a) == Append(hp, a)

\* a call that writes into the array it is given (cv.circle(mask, ...),
\* result[:, :, i] = ...)
WriteInto(hp, id, a) == [hp EXCEPT ![id] = a]

\* the heap when StarDetector.detect(image) returns, the mask being its
\* last object; src is what the finder reported, r the radius
DetectHeap(hp, image_id, src, r) ==
    LET h1 == NewArray(hp, hp[image_id])
        image_float == Len(h1)
        h2 == NewArray(h1, ZerosLike(h1[image_float]))
        mask_id == Len(h2)
    IN  IF src = None THEN h2
        ELSE WriteInto(h2, mask_id, DrawStars(h2[mask_id], src, 1, r))

\* the heap when Erosion.apply(image) returns, the eroded image being its
\* last object
ErosionHeap(hp, image_id, k, n) ==
    LET h1 == NewArray(hp, [h |-> k, w |-> k, px |-> [p \in Pixels(k, k) |-> 1]])
    IN  NewArray(h1, Erode(h1[image_id], k, n))

\* the heap when models.SelectiveErosion.apply(original, eroded, mask)
\* returns: result_uint8 is its last object, result the one before and
\* mask_smooth the one before that
SelectiveErosionHeap(hp, original_id, eroded_id, mask_id, sigma) ==
    LET h1 == NewArray(hp, MaskFloat(hp[mask_id]))
        mask_float == Len(h1)
        h2 == NewArray(h1, GaussianBlur3(h1[mask_float], sigma))
        blurred == Len(h2)
        h3 == NewArray(h2, [h2[blurred] EXCEPT !.px =
                  [p \in Pixels(h2[blurred].h, h2[blurred].w) |->
                      Clip(h2[blurred].px[p], 0, MaskScale)]])
        smooth_id == Len(h3)
        h4 == IF h3[original_id].ndim = 3
              THEN LET z == NewArray(h3, [h3[original_id] EXCEPT !.px =
                               [p \in Pixels(h3[original_id].h, h3[original_id].w) |->
                                   <<0, 0, 0>>]])
                   IN  WriteInto(z, Len(z),
                          CompositeHalf(z[original_id], z[eroded_id], z[smooth_id]))
              ELSE NewArray(h3, CompositeHalf(h3[original_id], h3[eroded_id],
                                              h3[smooth_id]))
    IN  NewArray(h4, h4[Len(h4)])

InitFrame ==
    /\ CompositeIdle
    /\ DetectIdle
    /\ MorphIdle
    /\ DiffIdle
    /\ NormIdle
    /\ ConfigIdle
    /\ PipelineIdle
    /\ TerminalIdle
    /\ StateIdle
    /\ WindowIdle
    /\ raised = None
    /\ \E h \in 1..MaxH, w \in 1..MaxW, t \in TestInputs :
          \/ /\ heap = <<TestImage(h, w, t[1], t[2])>>
             /\ args = [image |-> 1]
          \/ /\ \E kind \in {0, 1} :
                   heap = <<TestImage(h, w, t[1], t[2]), TestImage(h, w, t[1], t[3]),
                            TestMask(h, w, kind)>>
             /\ args = [original |-> 1, eroded |-> 2, mask |-> 3]
    /\ passed = heap
    /\ rets = <<>>
    /\ hpc = "ready"

\* star_mask, num_stars = StarDetector(fwhm=f).detect(image)
CallDetect(f, src) ==
    /\ hpc = "ready"
    /\ DOMAIN args = {"image"}
    /\ heap[args.image].ndim = 2
    /\ heap' = DetectHeap(heap, args.image, src, Radius(f, 15))
    /\ rets' = <<Len(heap')>>
    /\ hpc' = "returned"
    /\ UNCHANGED <<args, passed>>
    /\ UNCHANGED besides_hvars

\* eroded = Erosion(kernel_size=k, iterations=n).apply(image)
CallErosion(k, n) ==
    /\ hpc = "ready"
    /\ DOMAIN args = {"image"}
    /\ heap' = ErosionHeap(heap, args.image, k, n)
    /\ rets' = <<Len(heap')>>
    /\ hpc' = "returned"
    /\ UNCHANGED <<args, passed>>
    /\ UNCHANGED besides_hvars

\* result, mask_smooth = SelectiveErosion(blur_sigma=sigma).apply(original, eroded, mask)
CallSelectiveErosion(sigma) ==
    /\ hpc = "ready"
    /\ DOMAIN args = {"original", "eroded", "mask"}
    /\ heap' = SelectiveErosionHeap(heap, args.original, args.eroded, args.mask, sigma)
    /\ rets' = <<Len(heap'), Len(heap') - 2>>
    /\ hpc' = "returned"
    /\ UNCHANGED <<args, passed>>
    /\ UNCHANGED besides_hvars

NextFrame ==
    \/ \E f \in {10, 40} :
          \/ CallDetect(f, None)
          \/ \E src \in SourceTables([h |-> heap[1].h, w |-> heap[1].w], 1) :
                CallDetect(f, src)
    \/ \E k \in KernelSizes, n \in IterationCounts : CallErosion(k, n)
    \/ \E sigma \in BlurSigmas : CallSelectiveErosion(sigma)

SpecFrame == InitFrame /\ [][NextFrame]_vars

\* C21: detect, Erosion.apply and SelectiveErosion.apply leave the arrays
\* they were passed unchanged and return arrays created during the call.
C21_InputsUnchanged ==
    hpc = "returned" =>
        /\ \A id \in 1..Len(passed) : heap[id] = passed[id]
        /\ \A i \in 1..Len(rets) : rets[i] > Len(passed) /\ rets[i] <= Len(heap)

C21_Witness ==
    /\ hpc = "returned" /\ Len(passed) = 3 /\ Len(rets) = 2
    /\ heap[1].ndim = 3
    /\ heap[rets[1]] # heap[1] /\ heap[rets[1]] # heap[2]
    /\ heap[rets[1]].ndim = 3 /\ heap[rets[2]].px[<<0, 0>>] \in 0..MaskScale
    /\ heap[1] = passed[1] /\ heap[2] = passed[2] /\ heap[3] = passed[3]

(***************************************************************************)
(* Terminal mode: run_pipeline of src/src/main.py with the prompts of      *)
(* ImageView, and main of src/main.py with its command line                *)
(***************************************************************************)
\* sorted(examples_dir.glob("*.fits")), by file name
FitsFiles == {"HorseHead.fits", "test_M31_linear.fits"}

\* what the user can type at the file prompt: nothing, a listed name, a
\* name that is not listed
FileLines == {"", "HorseHead.fits", "test_M31_linear.fits", "missing.fits"}

\* what the user can type at a parameter prompt: nothing, cancel, a number
\* (tenths for the float parameters), a number below every minimum, text
\* that is not a number
ParamLines ==
    {[kind |-> "empty", value |-> 0], [kind |-> "cancel", value |-> 0],
     [kind |-> "number", value |-> 7], [kind |-> "number", value |-> 25],
     [kind |-> "number", value |-> -5], [kind |-> "text", value |-> 0]}

\* the prompts of get_custom_config in order: the field and its min_val
\* (0.1 is 1 tenth)
Prompts ==
    <<[field |-> "STAR_FWHM", min_val |-> 1],
      [field |-> "STAR_THRESHOLD", min_val |-> 1],
      [field |-> "STAR_RADIUS_FACTOR", min_val |-> 1],
      [field |-> "EROSION_KERNEL_SIZE", min_val |-> 1],
      [field |-> "EROSION_ITERATIONS", min_val |-> 0],
      [field |-> "MASK_BLUR_SIGMA", min_val |-> 1]>>

\* Config(): the generated __init__ gives every field the default that
\* the dataclass recorded when the class was created
NewConfig == FieldDefaults

\* Config.get_fits_file(), a classmethod: it reads the class attribute
GetFitsFile(cls) == cls.DEFAULT_FITS_FILE

\* the values a run reads from its Config instance
UsedValues(obj) ==
    [fwhm |-> obj.STAR_FWHM, threshold |-> obj.STAR_THRESHOLD,
     blur_sigma |-> obj.MASK_BLUR_SIGMA]

InitTerminal ==
    /\ CompositeIdle
    /\ DetectIdle
    /\ MorphIdle
    /\ DiffIdle
    /\ NormIdle
    /\ ConfigIdle
    /\ PipelineIdle
    /\ HeapIdle
    /\ StateIdle
    /\ WindowIdle
    /\ raised = None
    /\ config_class = FieldDefaults
    /\ config_obj = NoObject
    /\ fits_path = None
    /\ entered = <<>>
    /\ loaded_file = None
    /\ used = NoObject
    /\ tpc \in {"run_pipeline", "main"}

\* run_pipeline: config = Config(); view.ask_fits_file(...)
AskFitsFile(line) ==
    /\ tpc = "run_pipeline"
    /\ config_obj' = NewConfig
    /\ fits_path' = IF line = "" THEN config_obj'.DEFAULT_FITS_FILE
                    ELSE IF line \in FitsFiles THEN line
                    ELSE config_obj'.DEFAULT_FITS_FILE
    /\ tpc' = "ask_mode"
    /\ UNCHANGED <<config_class, entered, loaded_file, used>>
    /\ UNCHANGED besides_tvars

\* view.ask_mode(), and for "custom" the copy get_custom_config makes
AskMode(choice) ==
    /\ tpc = "ask_mode"
    /\ IF choice = "custom"
       THEN /\ config_obj' = [f \in DOMAIN config_obj |-> config_obj[f]]
            /\ tpc' = "wizard"
       ELSE /\ UNCHANGED config_obj
            /\ tpc' = "configured"
    /\ UNCHANGED <<config_class, fits_path, entered, loaded_file, used>>
    /\ UNCHANGED besides_tvars

\* one line typed at the prompt of _ask_float or _ask_int for the next
\* parameter: an empty line or cancel returns the default, a number of at
\* least min_val is returned, anything else asks again
AskParam(line) ==
    /\ tpc = "wizard"
    /\ LET prompt == Prompts[Len(entered) + 1]
       IN  IF line.kind \in {"empty", "cancel"}
           THEN /\ entered' = Append(entered, line)
                /\ UNCHANGED config_obj
           ELSE IF line.kind = "number" /\ line.value >= prompt.min_val
           THEN /\ entered' = Append(entered, line)
                /\ config_obj' = [config_obj EXCEPT ![prompt.field] = line.value]
           ELSE UNCHANGED <<entered, config_obj>>
    /\ tpc' = IF Len(entered') = Len(Prompts) THEN "configured" ELSE "wizard"
    /\ UNCHANGED <<config_class, fits_path, loaded_file, used>>
    /\ UNCHANGED besides_tvars

\* config.DEFAULT_FITS_FILE = fits_path;
\* PipelineController(config=config).run()
RunController ==
    /\ tpc = "configured"
    /\ config_obj' = [config_obj EXCEPT !.DEFAULT_FITS_FILE = fits_path]
    /\ loaded_file' = GetFitsFile(config_class)
    /\ used' = UsedValues(config_obj')
    /\ tpc' = "ran"
    /\ UNCHANGED <<config_class, fits_path, entered>>
    /\ UNCHANGED besides_tvars

\* main of src/main.py with --fwhm fw --threshold th --sigma sg and the
\* positional fits_file (None when it is left out), then run_pipeline
LegacyMain(fw, th, sg, file) ==
    /\ tpc = "main"
    /\ config_class' = [config_class EXCEPT !.STAR_FWHM = fw, !.STAR_THRESHOLD = th,
                                           !.MASK_BLUR_SIGMA = sg]
    /\ config_obj' = NewConfig
    /\ fits_path' = file
    /\ loaded_file' = IF file = None THEN GetFitsFile(config_class') ELSE file
    /\ used' = UsedValues(config_obj')
    /\ tpc' = "main_ran"
    /\ UNCHANGED entered
    /\ UNCHANGED besides_tvars

NextTerminal ==
    \/ \E line \in FileLines : AskFitsFile(line)
    \/ \E choice \in {"", "custom"} : AskMode(choice)
    \/ \E line \in ParamLines : AskParam(line)
    \/ RunController
    \/ \E fw \in {40, 25}, th \in {20, 35}, sg \in {50, 10}, file \in {None} \cup FitsFiles :
          LegacyMain(fw, th, sg, file)

SpecTerminal == InitTerminal /\ [][NextTerminal]_vars

\* C22: the file chosen in ask_fits_file is the file the run loads.
C22_ChosenFileIsLoaded ==
    tpc = "ran" => loaded_file = fits_path

\* C23: after main has updated the configuration from --fwhm, --threshold
\* and --sigma, the Config that run_pipeline creates carries those values
\* and the run uses them.
C23_CommandLineOverrides ==
    tpc = "main_ran" =>
        /\ config_obj.STAR_FWHM = config_class.STAR_FWHM
        /\ config_obj.STAR_THRESHOLD = config_class.STAR_THRESHOLD
        /\ config_obj.MASK_BLUR_SIGMA = config_class.MASK_BLUR_SIGMA
        /\ used = [fwhm |-> config_class.STAR_FWHM,
                   threshold |-> config_class.STAR_THRESHOLD,
                   blur_sigma |-> config_class.MASK_BLUR_SIGMA]

\* C24: cancel at a prompt of the wizard aborts it (no prompt follows) and
\* the configuration returned has every parameter at its default.
C24_CancelRestoresDefaults ==
    \A i \in 1..Len(entered) :
        entered[i].kind = "cancel" =>
            /\ i = Len(entered)
            /\ tpc # "wizard"
            /\ \A j \in 1..Len(Prompts) :
                  config_obj[Prompts[j].field] = FieldDefaults[Prompts[j].field]

(***************************************************************************)
(* StateManager: save_state, load_state, has_saved_state, clear_state      *)
(***************************************************************************)
\* a fits_path argument that json cannot serialise (a Path object)
PathObject == "PosixPath('b.fits')"

\* arguments of save_state
FitsPathArgs == {"a.fits", "c.fits", "", PathObject}
DisplayedImageArgs == {"original.png", "starmask.png", "eroded.png", "difference.png"}
NumStarsArgs == {0, 3, 12}

\* the keys of the state dictionary in the order save_state builds it
StateKeys == <<"fits_file", "displayed_image", "num_stars", "timestamp">>

\* one piece of JSON text: a brace, or a key with its string or number
Token(key, str, num) == [key |-> key, str |-> str, num |-> num]

\* the dictionary save_state builds
StateDict(f, d, n) ==
    [fits_file |-> f, displayed_image |-> d, num_stars |-> n, timestamp |-> "now"]

\* the text json.dump has written for the keys from i on; it raises
\* TypeError, leaving what it wrote so far, at a value it cannot serialise
RECURSIVE JsonDumpFrom(_, _)
JsonDumpFrom(st, i) ==
    IF i > Len(StateKeys) THEN <<Token("}", "", 0)>>
    ELSE IF StateKeys[i] = "num_stars"
         THEN <<Token("num_stars", "", st.num_stars)>> \o JsonDumpFrom(st, i + 1)
    ELSE IF st[StateKeys[i]] = PathObject THEN <<>>
    ELSE <<Token(StateKeys[i], st[StateKeys[i]], 0)>> \o JsonDumpFrom(st, i + 1)

\* json.dump(state, f): the text written to the file just opened
JsonDump(st) == <<Token("{", "", 0)>> \o JsonDumpFrom(st, 1)

\* whether json.load accepts the text: an object that is closed
JsonParses(text) ==
    /\ Len(text) >= 2
    /\ text[1].key = "{"
    /\ text[Len(text)].key = "}"

\* the dictionary json.load returns for a text it accepts
JsonLoad(text) ==
    LET at(k) == CHOOSE i \in 2..(Len(text) - 1) : text[i].key = k
    IN  [fits_file |-> text[at("fits_file")].str,
         displayed_image |-> text[at("displayed_image")].str,
         num_stars |-> text[at("num_stars")].num,
         timestamp |-> text[at("timestamp")].str]

\* whether the parsed object has all the required keys
HasRequiredKeys(text) ==
    \A k \in {"fits_file", "displayed_image", "num_stars", "timestamp"} :
        \E i \in 2..(Len(text) - 1) : text[i].key = k

\* whether load_state returns a dictionary (and not None)
LoadsState(file) ==
    file.exists /\ JsonParses(file.text) /\ HasRequiredKeys(file.text)

\* the dictionary load_state returns when it returns one
LoadState(file) == JsonLoad(file.text)

\* has_saved_state()
HasSavedState(file) == file.exists /\ LoadsState(file)

InitState ==
    /\ CompositeIdle
    /\ DetectIdle
    /\ MorphIdle
    /\ DiffIdle
    /\ NormIdle
    /\ ConfigIdle
    /\ PipelineIdle
    /\ HeapIdle
    /\ TerminalIdle
    /\ WindowIdle
    /\ raised = None
    /\ state_file = NoFile
    /\ last_call = [op |-> "none"]
    /\ last_return = None

\* the state file after open(state_file, 'w') and json.dump(state, f)
SavedFile(f, d, n) == [exists |-> TRUE, text |-> JsonDump(StateDict(f, d, n))]

\* save_state(f, d, n); can_open is whether open(state_file, 'w') succeeds
SaveState(f, d, n, can_open) ==
    /\ IF ~can_open
       THEN /\ UNCHANGED <<state_file, last_call>>
            /\ last_return' = "False"
       ELSE /\ state_file' = SavedFile(f, d, n)
            /\ IF JsonParses(state_file'.text)
               THEN /\ last_call' = [op |-> "save", fits_file |-> f,
                                     displayed_image |-> d, num_stars |-> n]
                    /\ last_return' = "True"
               ELSE /\ UNCHANGED last_call
                    /\ last_return' = "False"
    /\ UNCHANGED besides_svars

\* clear_state(); can_unlink is whether unlink succeeds
ClearState(can_unlink) ==
    /\ IF state_file.exists /\ ~can_unlink
       THEN /\ UNCHANGED <<state_file, last_call>>
            /\ last_return' = "False"
       ELSE /\ state_file' = NoFile
            /\ last_call' = [op |-> "clear"]
            /\ last_return' = "True"
    /\ UNCHANGED besides_svars

NextState ==
    \/ \E f \in FitsPathArgs, d \in DisplayedImageArgs, n \in NumStarsArgs,
          can_open \in BOOLEAN : SaveState(f, d, n, can_open)
    \/ \E can_unlink \in BOOLEAN : ClearState(can_unlink)

SpecState == InitState /\ [][NextState]_vars

\* C25: after any sequence of save_state and clear_state calls, load_state
\* reflects the most recent call that succeeded: the saved fits_file,
\* displayed_image and num_stars after a save, None (and has_saved_state
\* False) after a clear.
C25_LoadReflectsLastSuccess ==
    /\ last_call.op = "save" =>
          /\ LoadsState(state_file)
          /\ LoadState(state_file).fits_file = last_call.fits_file
          /\ LoadState(state_file).displayed_image = last_call.displayed_image
          /\ LoadState(state_file).num_stars = last_call.num_stars
    /\ last_call.op = "clear" =>
          (~LoadsState(state_file) /\ ~HasSavedState(state_file))

(***************************************************************************)
(* PipelineController.run_with_fits_path: the callbacks                    *)
(***************************************************************************)

\* the positions in the call log of the calls of one callback with one step
CallsOf(name, step) ==
    {i \in DOMAIN calls : calls[i].name = name /\ calls[i].step = step}

\* the position of the only call of a callback with a step
CallAt(name, step) == CHOOSE i \in CallsOf(name, step) : TRUE

\* C30: in a completed run_with_fits_path with all three callbacks set,
\* on_progress was called once for each step 0..6 in strictly increasing
\* order; on_stars_detected was called once, after progress 1 and before
\* progress 2, with the count detect returned, which num_stars reports;
\* on_results_ready was called once, after progress 6, with the eight
\* result paths.
C30_CallbackOrder ==
    (ppc = "done" /\ method = "run_with_fits_path" /\ callbacks = AllCallbacks) =>
        /\ \A k \in 0..6 : Cardinality(CallsOf("on_progress", k)) = 1
        /\ \A i \in DOMAIN calls :
              calls[i].name = "on_progress" => calls[i].step \in 0..6
        /\ \A k \in 0..5 :
              CallAt("on_progress", k) < CallAt("on_progress", k + 1)
        /\ Cardinality(CallsOf("on_stars_detected", 0)) = 1
        /\ CallAt("on_progress", 1) < CallAt("on_stars_detected", 0)
        /\ CallAt("on_stars_detected", 0) < CallAt("on_progress", 2)
        /\ calls[CallAt("on_stars_detected", 0)].count = frame.num_stars
        /\ p_num_stars = frame.num_stars
        /\ Cardinality(CallsOf("on_results_ready", 0)) = 1
        /\ CallAt("on_progress", 6) < CallAt("on_results_ready", 0)
        /\ calls[CallAt("on_results_ready", 0)].paths = ResultPaths
        /\ Len(ResultPaths) = 8

C30_Witness ==
    /\ ppc = "done" /\ method = "run_with_fits_path" /\ callbacks = AllCallbacks
    /\ frame.num_stars = 1
    /\ Len(calls) = 9

(***************************************************************************)
(* ImageViewGraphic: the main window, its close dialog and saved sessions   *)
(***************************************************************************)

\* the FITS files the user can pick; bad.fits is a file ImageModel cannot
\* load (fits.open or the conversion raises)
GuiFits == {"a.fits", "c.fits", "bad.fits"}

\* the number of stars the pipeline finds in a file
StarsIn(f) == IF f = "a.fits" THEN 3 ELSE 12

\* str(num_stars)
Str(n) == IF n = 0 THEN "0" ELSE IF n = 3 THEN "3" ELSE "12"

\* the ways to try to close the window: the Close APP button
\* (_on_close_clicked) and the window close event (closeEvent)
CloseVias == {"button", "event"}

\* the buttons of the confirmation dialog
Answers == {"Oui", "Non", "Annuler"}

\* the files run_with_fits_path writes
ResultFiles == {ResultPaths[i] : i \in DOMAIN ResultPaths}

\* whether ImageModel(fits_path, ...) raises
PipelineRaises(f, disk) == f \notin disk \/ f = "bad.fits"

\* _display_image(filename): nothing happens when the file does not exist
DisplayImage(w, files, filename) ==
    IF filename \notin files THEN w
    ELSE [w EXCEPT !.pixmap = filename, !.current_displayed_image = filename]

\* _on_processing_started
OnProcessingStarted(w) ==
    [w EXCEPT !.progress_format = "Processing...", !.open_enabled = FALSE]

\* _on_processing_finished
OnProcessingFinished(w) ==
    [w EXCEPT !.progress_format = "Done!", !.open_enabled = TRUE]

\* _on_stars_updated(num_stars)
OnStarsUpdated(w, n) == [w EXCEPT !.num_stars = n, !.stars_count = Str(n)]

\* _on_results_updated(paths)
OnResultsUpdated(w, files) ==
    DisplayImage([w EXCEPT !.current_displayed_image = "original.png"],
                 files, "original.png")

\* load_fits(fits_path): the window and the results directory afterwards.
\* An exception of the pipeline is caught after processing_started was
\* emitted and before processing_finished is.
LoadFitsWindow(w, files, f, disk) ==
    IF PipelineRaises(f, disk)
    THEN [win |-> OnProcessingStarted(w), pngs |-> files]
    ELSE LET written == files \cup ResultFiles
             w1 == OnStarsUpdated(OnProcessingStarted(w), StarsIn(f))
             w2 == OnResultsUpdated(w1, written)
             w3 == DisplayImage([w2 EXCEPT !.image_model = f], written, "original.png")
         IN  [win |-> OnProcessingFinished(w3), pngs |-> written]

\* _restore_state(state)
RestoreState(w, files, state, disk) ==
    IF state.fits_file = "" THEN [win |-> w, pngs |-> files]
    ELSE IF state.fits_file \notin disk
    THEN [win |-> DisplayImage(
                     [w EXCEPT !.current_displayed_image = state.displayed_image,
                               !.num_stars = state.num_stars,
                               !.stars_count = Str(state.num_stars),
                               !.state_restored = TRUE],
                     files, state.displayed_image),
          pngs |-> files]
    ELSE LET r == LoadFitsWindow(w, files, state.fits_file, disk)
         IN  [win |-> DisplayImage(
                         [r.win EXCEPT !.current_displayed_image = state.displayed_image],
                         r.pngs, state.displayed_image),
              pngs |-> r.pngs]

\* NeedsConfirmation looking at image_model only
NeedsConfirmationImageOnly(w) == w.image_model # None

\* the condition of _on_close_clicked and closeEvent for asking
NeedsConfirmation(w) == ~(w.image_model = None /\ ~w.state_restored)

\* CleanupResults sparing original.png
CleanupResultsKeepOriginal(files) == files \cap {"original.png"}

\* _cleanup_results(): the PNG files left in the results directory
CleanupResults(files) == {}

\* the fits_path _save_and_close saves
SavedFitsPath(w) == IF w.image_model # None THEN w.image_model ELSE ""

InitWindow ==
    /\ CompositeIdle
    /\ DetectIdle
    /\ MorphIdle
    /\ DiffIdle
    /\ NormIdle
    /\ ConfigIdle
    /\ PipelineIdle
    /\ HeapIdle
    /\ TerminalIdle
    /\ StateIdle
    /\ raised = None
    /\ win = NoWindow
    /\ pngs = {}
    /\ fits_on_disk = GuiFits
    /\ attempt = NoAttempt
    /\ fresh = FALSE

\* run_gui / main: load the saved state, create the window, restore
Launch ==
    /\ ~win.open
    /\ LET r == IF HasSavedState(state_file)
                THEN RestoreState(NewWindow, pngs, LoadState(state_file), fits_on_disk)
                ELSE [win |-> NewWindow, pngs |-> pngs]
       IN  /\ win' = r.win
           /\ pngs' = r.pngs
    /\ fresh' = TRUE
    /\ UNCHANGED <<fits_on_disk, attempt, svars>>
    /\ UNCHANGED besides_wvars

\* _on_open_fits: the user picks an existing file in the file dialog
OnOpenFits(f) ==
    /\ win.open /\ win.open_enabled
    /\ f \in fits_on_disk
    /\ LET r == LoadFitsWindow(win, pngs, f, fits_on_disk)
       IN  /\ win' = r.win
           /\ pngs' = r.pngs
    /\ fresh' = FALSE
    /\ UNCHANGED <<fits_on_disk, attempt, svars>>
    /\ UNCHANGED besides_wvars

\* _on_result_clicked(filename)
OnResultClicked(filename) ==
    /\ win.open
    /\ win' = IF win.image_model = None /\ ~win.state_restored THEN win
              ELSE DisplayImage(win, pngs, filename)
    /\ fresh' = FALSE
    /\ UNCHANGED <<pngs, fits_on_disk, attempt, svars>>
    /\ UNCHANGED besides_wvars

\* _on_close_clicked or closeEvent, with the button the user presses if the
\* confirmation dialog is shown
CloseAttempt(via, answer) ==
    /\ win.open
    /\ attempt' = [via |-> via, needed |-> ~(win.image_model = None /\ ~win.state_restored),
                   dialog |-> NeedsConfirmation(win),
                   answer |-> IF NeedsConfirmation(win) THEN answer ELSE None,
                   displayed |-> win.current_displayed_image,
                   pixmap |-> win.pixmap, stars |-> win.num_stars,
                   label |-> win.stars_count, pngs |-> pngs]
    /\ fresh' = FALSE
    /\ IF ~NeedsConfirmation(win)
       THEN /\ win' = [win EXCEPT !.open = FALSE]
            /\ UNCHANGED <<pngs, svars>>
       ELSE IF answer = "Oui"
       THEN /\ state_file' = SavedFile(SavedFitsPath(win), win.current_displayed_image,
                                       win.num_stars)
            /\ last_call' = [op |-> "save", fits_file |-> SavedFitsPath(win),
                             displayed_image |-> win.current_displayed_image,
                             num_stars |-> win.num_stars]
            /\ last_return' = "True"
            /\ win' = [win EXCEPT !.is_closing = TRUE, !.open = FALSE]
            /\ UNCHANGED pngs
       ELSE IF answer = "Non"
       THEN /\ pngs' = CleanupResults(pngs)
            /\ state_file' = NoFile
            /\ last_call' = [op |-> "clear"]
            /\ last_return' = "True"
            /\ win' = [win EXCEPT !.is_closing = TRUE, !.open = FALSE]
       ELSE UNCHANGED <<win, pngs, svars>>
    /\ UNCHANGED fits_on_disk
    /\ UNCHANGED besides_wvars

\* between two sessions a FITS file is deleted
DeleteFits(f) ==
    /\ ~win.open
    /\ f \in fits_on_disk
    /\ fits_on_disk' = fits_on_disk \ {f}
    /\ UNCHANGED <<win, pngs, attempt, fresh, svars>>
    /\ UNCHANGED besides_wvars

NextWindow ==
    \/ Launch
    \/ \E f \in GuiFits : OnOpenFits(f)
    \/ \E filename \in DisplayedImageArgs : OnResultClicked(filename)
    \/ \E via \in CloseVias, answer \in Answers : CloseAttempt(via, answer)
    \/ \E f \in GuiFits : DeleteFits(f)

SpecWindow == InitWindow /\ [][NextWindow]_vars

\* a step that is an attempt to close the window
CloseStep == \E via \in CloseVias, answer \in Answers : CloseAttempt(via, answer)

\* C26: while an image is loaded or a state was restored, every attempt to
\* close the window (button or close event) shows the confirmation dialog;
\* the window closes only after 'Oui' or 'Non'; after 'Annuler' it stays
\* open and the saved state and the result PNG files are unchanged.
C26_CloseIsConfirmed ==
    [][(CloseStep /\ (win.image_model # None \/ win.state_restored)) =>
          /\ attempt'.dialog
          /\ (~win'.open => attempt'.answer \in {"Oui", "Non"})
          /\ (attempt'.answer = "Annuler" =>
                 (win'.open /\ state_file' = state_file /\ pngs' = pngs))]_vars

C26_Witness ==
    /\ attempt.needed /\ attempt.dialog /\ attempt.answer = "Annuler"
    /\ win.open /\ win.state_restored /\ pngs # {} /\ state_file.exists

C28_SessionRestored ==
    (win.open /\ fresh /\ attempt.answer = "Oui") =>
        /\ win.current_displayed_image = attempt.displayed
        /\ win.pixmap = attempt.pixmap
        /\ win.num_stars = attempt.stars
        /\ win.stars_count = attempt.label

\* C29: once load_fits has returned, the Open FITS button is enabled and
\* the progress bar does not say 'Processing...'.
C29_OpenButtonEnabledAgain ==
    win.open => (win.open_enabled /\ win.progress_format # "Processing...")

====
